---- MODULE Spec2Model ----
(***************************************************************************)
(* A state-machine model of Umbra's device-binding layer: the Attribute    *)
(* variable (enabled flag cache, value assignment), the RenderingContext   *)
(* property pairs that read and write the device's global state, the       *)
(* Uniform setters, Texture2D, the VAO, and the pure functions of Matrix2  *)
(* and getDataTypeForTypedArray.                                           *)
(*                                                                         *)
(* The device (a WebGL2 context) is a register set: vertex-attribute array *)
(* flags per location, bindings, capabilities, texture parameters and one  *)
(* value per getParameter name.  Every operation of the layer is one       *)
(* action (the Attribute value setter is four steps in program order);     *)
(* each action records in `calls` the device calls it issued and in `op`   *)
(* which operation ran.                                                    *)
(***************************************************************************)
EXTENDS Integers, Sequences, FiniteSets, TLC

\* ------------------------------------------------------------------ bounds
NumAttributes == 2
NumBuffers == 2
NumUniforms == 2
NumTextures == 2
NumMatrices == 2
NumArrays == 2
\* addAttribute is called on a VAO until its list has MaxAttributeList entries.
MaxAttributeList == 2
\* Reads of one property are counted up to MaxReads.
MaxReads == 2

Attributes == 1..NumAttributes
Locations == 0..(NumAttributes - 1)
Buffers == 1..NumBuffers

\* ------------------------------------------------- device constants (enums)
ARRAY_BUFFER == 34962
FRONT == 1028
BACK == 1029
FRONT_AND_BACK == 1032
NEVER == 512
LESS == 513
EQUAL == 514
LEQUAL == 515
GREATER == 516
NOTEQUAL == 517
GEQUAL == 518
ALWAYS == 519
KEEP == 7680
REPLACE == 7681
INCR == 7682
DECR == 7683
INVERT == 5386
INCR_WRAP == 34055
DECR_WRAP == 34056
ZERO == 0
ONE == 1
SRC_ALPHA == 770
ONE_MINUS_SRC_ALPHA == 771
SRC_COLOR == 768
ONE_MINUS_SRC_COLOR == 769
DST_ALPHA == 772
ONE_MINUS_DST_ALPHA == 773
DST_COLOR == 774
ONE_MINUS_DST_COLOR == 775
SRC_ALPHA_SATURATE == 776
CONSTANT_COLOR == 32769
ONE_MINUS_CONSTANT_COLOR == 32770
CONSTANT_ALPHA == 32771
ONE_MINUS_CONSTANT_ALPHA == 32772
UNSIGNED_BYTE == 5121
UNSIGNED_SHORT == 5123
FLOAT == 5126
ALPHA == 6406
RGB == 6407
RGBA == 6408
LUMINANCE == 6409
LUMINANCE_ALPHA == 6410
TEXTURE_2D == 3553
RGBA4 == 32854
RGB5_A1 == 32855
RGB565 == 36194
RED == 6403
RGB8 == 32849
RGBA8 == 32856
RGB10_A2 == 32857
SRGB8 == 35905
SRGB8_ALPHA8 == 35907
RGBA32F == 34836
RGB32F == 34837
RGBA16F == 34842
RGB16F == 34843
R11F_G11F_B10F == 35898
RGB9_E5 == 35901
RGBA8UI == 36220
RGB8UI == 36221
RED_INTEGER == 36244
RGB_INTEGER == 36248
RGBA_INTEGER == 36249
R8 == 33321
RG8 == 33323
R16F == 33325
R32F == 33326
RG16F == 33327
RG32F == 33328
R8UI == 33330
R16UI == 33332
RG8UI == 33336
UNSIGNED_INT_2_10_10_10_REV == 33640
RG == 33319
RG_INTEGER == 33320
TEXTURE0 == 33984
LINES == 1
TRIANGLES == 4
POLYGON_OFFSET_FACTOR == 32824
POLYGON_OFFSET_UNITS == 10752
SAMPLE_COVERAGE_VALUE == 32938
SAMPLE_COVERAGE_INVERT == 32939
BLEND_EQUATION_RGB == 32777
BLEND_EQUATION_ALPHA == 34877
FUNC_ADD == 32774
FUNC_SUBTRACT == 32778
FUNC_REVERSE_SUBTRACT == 32779
MIN == 32775
MAX == 32776
CULL_FACE == 2884
DEPTH_TEST == 2929
DITHER == 3024
POLYGON_OFFSET_FILL == 32823
SAMPLE_ALPHA_TO_COVERAGE == 32926
SAMPLE_COVERAGE == 32928
SCISSOR_TEST == 3089
STENCIL_TEST == 2960
RASTERIZER_DISCARD == 35977
ACTIVE_TEXTURE == 34016
TEXTURE_MAG_FILTER == 10240
TEXTURE_MIN_FILTER == 10241
TEXTURE_WRAP_S == 10242
TEXTURE_WRAP_T == 10243
NEAREST == 9728
LINEAR == 9729
NEAREST_MIPMAP_LINEAR == 9986
REPEAT == 10497
CLAMP_TO_EDGE == 33071
BYTE == 5120
SHORT == 5122
INT == 5124
UNSIGNED_INT == 5125
HALF_FLOAT == 5131
STENCIL_FUNC == 2962
STENCIL_VALUE_MASK == 2963
STENCIL_FAIL == 2964
STENCIL_PASS_DEPTH_FAIL == 2965
STENCIL_PASS_DEPTH_PASS == 2966
STENCIL_REF == 2967
STENCIL_WRITEMASK == 2968
STENCIL_BACK_FUNC == 34816
STENCIL_BACK_FAIL == 34817
STENCIL_BACK_PASS_DEPTH_FAIL == 34818
STENCIL_BACK_PASS_DEPTH_PASS == 34819
STENCIL_BACK_REF == 36003
STENCIL_BACK_VALUE_MASK == 36004
STENCIL_BACK_WRITEMASK == 36005
BLEND_DST_RGB == 32968
BLEND_SRC_RGB == 32969
BLEND_DST_ALPHA == 32970
BLEND_SRC_ALPHA == 32971
CULL_FACE_MODE == 2885
DEPTH_FUNC == 2932
VIEWPORT == 2978
BLEND == 3042

\* --------------------------------------------------------- optional values
\* A JavaScript `T | undefined` is a set with at most one element.
Undefined == {}

Some(v) == {v}

Get(o) == CHOOSE v \in o : TRUE

VARIABLES
    vertexAttribArray,  \* device: location -> is the vertex-attribute array enabled
    arrayBufferBinding, \* device: the buffer bound to ARRAY_BUFFER (optional)
    constructedOn,      \* the device's array flags when the attributes were constructed
    location,           \* Attribute.location, per attribute
    enabledCache,       \* Attribute.enabledCache, per attribute (optional boolean)
    valueCache,         \* Attribute.valueCache, per attribute (optional value)
    assignedValue,      \* the value last handed to `value =`, per attribute (optional)
    pc,                 \* position inside the running `value` assignment
    param,              \* device: getParameter name -> the value the device holds
    caps,               \* device: capability -> is it enabled (isEnabled)
    assigned,           \* the values last assigned to stencilRefFront / stencilMaskFront
    uniforms,           \* the Uniform objects: kind, location, transpose, source window
    raised,             \* the error the last Uniform value assignment raised
    textures,           \* the Texture2D objects' fields
    activeTexture,      \* device: the active texture unit
    textureBinding,     \* device: unit -> the texture bound to TEXTURE_2D (0: none)
    texParameter,       \* device: texture -> parameter name -> value
    matrix,             \* the Matrix2 objects' entries
    arrays,             \* the typed arrays: which constructor made each
    vaos,               \* the VAO objects: program and index attribute
    lists,              \* the arrays of attributes: the VAOs' own and the copy handed out
    returned,           \* the array the `attributes` getter returned last (0: none)
    vertexArrayBinding, \* device: the bound vertex array object (0: none)
    currentProgram,     \* device: the program in use (0: none)
    readCount,          \* per simple state property: reads since its last assignment
    op,                 \* the operation that ran last
    calls               \* the device calls the last operation issued, in order

vars == <<vertexAttribArray, arrayBufferBinding, constructedOn, location,
          enabledCache, valueCache, assignedValue, pc, param, caps, assigned, readCount,
          uniforms, raised, textures, activeTexture, textureBinding, texParameter, matrix, arrays,
          vaos, lists, returned, vertexArrayBinding, currentProgram, op, calls>>

contextVars == <<param, caps, assigned, readCount>>

uniformVars == <<uniforms, raised>>

textureVars == <<textures, activeTexture, textureBinding>>

texParameterVars == <<texParameter>>

matrixVars == <<matrix>>

arrayVars == <<arrays>>

vaoVars == <<vaos, lists, returned, vertexArrayBinding, currentProgram>>

attributeVars == <<vertexAttribArray, arrayBufferBinding, constructedOn, location,
                   enabledCache, valueCache, assignedValue, pc>>

Call(fn, args) == [fn |-> fn, args |-> args]

\* An operation on object `obj` (an Attribute) with argument `arg`.
Op(name, obj, arg) == [name |-> name, obj |-> obj, arg |-> arg, held |-> 0]

\* A RenderingContext property assignment; `held` is what the property's own
\* getter returned before it.
CtxOp(name, arg, held) == [name |-> name, obj |-> 0, arg |-> arg, held |-> held]

\* ---------------------------------------------------------------- Attribute
\* A value handed to `value =`: a descriptor holding a buffer, or a bare Buffer.
AttributeValues == [bare : BOOLEAN, buffer : Buffers]

NoValue == [bare |-> FALSE, buffer |-> 0]

Idle == [step |-> "idle", attr |-> 0, value |-> NoValue]

\* gl.getAttribLocation(program.internal, name): the device numbers the active
\* attributes of one program with distinct locations, here in declaration order.
GetAttribLocation(a) == a - 1

\* get enabled(): `this.enabledCache ??= false` -- the value returned.
EnabledGetter(a) ==
    IF enabledCache[a] = Undefined THEN FALSE ELSE Get(enabledCache[a])

\* Mutant of EnabledGetterCache: the `??=` stores true instead of the value returned.
EnabledGetterCacheTrue(a) ==
    [enabledCache EXCEPT ![a] = IF enabledCache[a] = Undefined THEN Some(TRUE)
                                ELSE enabledCache[a]]

\* get enabled(): the cache after the `??=`.
EnabledGetterCache(a) ==
    [enabledCache EXCEPT ![a] = Some(EnabledGetter(a))]

\* Mutant of EnabledSetter: the location is queried again on every change.
EnabledSetterRequery(a, value) ==
    IF EnabledGetter(a) = value
    THEN /\ enabledCache' = EnabledGetterCache(a)
         /\ vertexAttribArray' = vertexAttribArray
         /\ calls' = <<>>
    ELSE /\ enabledCache' = [enabledCache EXCEPT ![a] = Some(value)]
         /\ vertexAttribArray' = [vertexAttribArray EXCEPT ![GetAttribLocation(a)] = value]
         /\ calls' = << Call("getAttribLocation", <<a>>),
                        Call(IF value THEN "enableVertexAttribArray"
                                      ELSE "disableVertexAttribArray",
                             <<GetAttribLocation(a)>>) >>

\* Mutant of EnabledSetter: the early return is missing, the device is always called.
EnabledSetterUnguarded(a, value) ==
    /\ enabledCache' = [enabledCache EXCEPT ![a] = Some(value)]
    /\ vertexAttribArray' = [vertexAttribArray EXCEPT ![location[a]] = value]
    /\ calls' = << Call(IF value THEN "enableVertexAttribArray"
                                 ELSE "disableVertexAttribArray",
                        <<location[a]>>) >>

\* set enabled(value), on a fresh call log.
EnabledSetter(a, value) ==
    IF EnabledGetter(a) = value
    THEN /\ enabledCache' = EnabledGetterCache(a)
         /\ vertexAttribArray' = vertexAttribArray
         /\ calls' = <<>>
    ELSE /\ enabledCache' = [enabledCache EXCEPT ![a] = Some(value)]
         /\ vertexAttribArray' = [vertexAttribArray EXCEPT ![location[a]] = value]
         /\ calls' = << Call(IF value THEN "enableVertexAttribArray"
                                      ELSE "disableVertexAttribArray",
                             <<location[a]>>) >>

\* Mutant of RealValue: the value is kept as it was given.
RealValueAsGiven(value) == value

\* `"buffer" in value ? value : { buffer: value }`
RealValue(value) ==
    IF value.bare THEN [bare |-> FALSE, buffer |-> value.buffer] ELSE value

\* Buffer.bind(target): binds the buffer's handle to the binding point.
BufferBind(buffer, target) ==
    /\ arrayBufferBinding' = IF target = ARRAY_BUFFER THEN Some(buffer) ELSE arrayBufferBinding
    /\ calls' = Append(calls, Call("bindBuffer", <<target, buffer>>))

\* this.setterInternal(realValue): the pointer-description call for this location.
SetterInternal(a, realValue) ==
    calls' = Append(calls, Call("setterInternal", <<location[a], realValue.buffer>>))

\* Reading `attribute.enabled`.
ReadEnabled(a) ==
    /\ pc.step = "idle"
    /\ enabledCache' = EnabledGetterCache(a)
    /\ op' = Op("getEnabled", a, EnabledGetter(a))
    /\ calls' = <<>>
    /\ UNCHANGED <<vertexAttribArray, arrayBufferBinding, constructedOn, location,
                   valueCache, assignedValue, pc>>

\* `attribute.enabled = value`.
AssignEnabled(a, value) ==
    /\ pc.step = "idle"
    /\ EnabledSetter(a, value)
    /\ op' = Op("setEnabled", a, value)
    /\ UNCHANGED <<arrayBufferBinding, constructedOn, location, valueCache, assignedValue, pc>>

\* `attribute.value = value`, step (a): this.enabled = true.
ValueEnable(a, value) ==
    /\ pc.step = "idle"
    /\ EnabledSetter(a, TRUE)
    /\ pc' = [step |-> "bind", attr |-> a, value |-> value]
    /\ op' = Op("setValue", a, value)
    /\ UNCHANGED <<arrayBufferBinding, constructedOn, location, valueCache, assignedValue>>

\* Mutant of ValueBind: the buffer is not bound before the pointer call.
ValueBindSkipped ==
    /\ pc.step = "bind"
    /\ pc' = [pc EXCEPT !.step = "setter"]
    /\ UNCHANGED <<vertexAttribArray, arrayBufferBinding, constructedOn, location,
                   enabledCache, valueCache, assignedValue, op, calls>>

\* step (b): realValue.buffer.bind(BufferTarget.ARRAY_BUFFER).
ValueBind ==
    /\ pc.step = "bind"
    /\ BufferBind(RealValue(pc.value).buffer, ARRAY_BUFFER)
    /\ pc' = [pc EXCEPT !.step = "setter"]
    /\ UNCHANGED <<vertexAttribArray, constructedOn, location, enabledCache,
                   valueCache, assignedValue, op>>

\* Mutant of ValueSetter: the pointer call is suppressed when the value is the cached one.
ValueSetterIfChanged ==
    /\ pc.step = "setter"
    /\ IF valueCache[pc.attr] = Some(RealValue(pc.value))
       THEN calls' = calls
       ELSE SetterInternal(pc.attr, RealValue(pc.value))
    /\ pc' = [pc EXCEPT !.step = "cache"]
    /\ UNCHANGED <<vertexAttribArray, arrayBufferBinding, constructedOn, location,
                   enabledCache, valueCache, assignedValue, op>>

\* step (c): this.setterInternal(realValue).
ValueSetter ==
    /\ pc.step = "setter"
    /\ SetterInternal(pc.attr, RealValue(pc.value))
    /\ pc' = [pc EXCEPT !.step = "cache"]
    /\ UNCHANGED <<vertexAttribArray, arrayBufferBinding, constructedOn, location,
                   enabledCache, valueCache, assignedValue, op>>

\* step (d): this.valueCache = realValue.
ValueCache ==
    /\ pc.step = "cache"
    /\ valueCache' = [valueCache EXCEPT ![pc.attr] = Some(RealValue(pc.value))]
    /\ assignedValue' = [assignedValue EXCEPT ![pc.attr] = Some(pc.value)]
    /\ pc' = Idle
    /\ UNCHANGED <<vertexAttribArray, arrayBufferBinding, constructedOn, location,
                   enabledCache, op, calls>>

\* Reading `attribute.value`.
ReadValue(a) ==
    /\ pc.step = "idle"
    /\ op' = Op("getValue", a, valueCache[a])
    /\ calls' = <<>>
    /\ UNCHANGED attributeVars

\* ------------------------------------------------------- Attribute: claims
\* The device calls of the last operation that describe an attribute pointer.
PointerCalls == SelectSeq(calls, LAMBDA c : c.fn = "setterInternal")

\* C1: assigning `enabled` the value `enabled` currently returns issues zero
\* device calls; assigning the opposite value issues exactly one call,
\* enableVertexAttribArray for true and disableVertexAttribArray for false, on
\* the attribute's own location.  (The assignment inside `value =` included.)
C1_EnabledSetCallsOnlyOnChange ==
    [][(pc.step = "idle" /\ op'.name \in {"setEnabled", "setValue"}) =>
        LET a == op'.obj
            v == IF op'.name = "setEnabled" THEN op'.arg ELSE TRUE
        IN  IF EnabledGetter(a) = v
            THEN calls' = <<>>
            ELSE calls' = << Call(IF v THEN "enableVertexAttribArray"
                                       ELSE "disableVertexAttribArray",
                                  <<location[a]>>) >>]_vars

\* C1 witness: `enabled = true` was assigned while the cache already held true,
\* and no device call was issued.
C1_Witness ==
    /\ op.name = "setEnabled"
    /\ op.arg = TRUE
    /\ vertexAttribArray[location[op.obj]]
    /\ calls = <<>>

C4_ValueNeverSuppressed ==
    (op.name = "setValue" /\ pc.step \in {"cache", "idle"}) =>
        Len(PointerCalls) = 1

\* C4 witness: the pointer call of a second assignment has been issued while
\* the cache still holds the identical descriptor of the first.
C4_Witness ==
    /\ pc.step = "cache"
    /\ valueCache[pc.attr] = Some(RealValue(pc.value))
    /\ Len(PointerCalls) = 1

\* C15: reading an Attribute's `value` issues no device call and returns the
\* last assignment: after `value = v`, with v a descriptor or a bare Buffer,
\* it returns v; before any assignment it returns undefined.
C15_ValueReadReturnsAssigned ==
    [][op'.name = "getValue" =>
        /\ calls' = <<>>
        /\ op'.arg = assignedValue[op'.obj]]_vars

\* C15 as amended: reading an Attribute's `value` issues no device call and
\* returns undefined before any assignment, the descriptor v after
\* `value = v` with a descriptor, and the descriptor { buffer: b } after
\* `value = b` with a bare Buffer b.
C15_ValueReadReturnsDescriptor ==
    [][op'.name = "getValue" =>
        /\ calls' = <<>>
        /\ op'.arg =
              IF assignedValue[op'.obj] = Undefined THEN Undefined
              ELSE LET v == Get(assignedValue[op'.obj])
                   IN  Some(IF v.bare THEN [bare |-> FALSE, buffer |-> v.buffer]
                            ELSE v)]_vars

\* C15 witness: `value` was read after a bare Buffer was assigned, and the
\* read returned the descriptor wrapping that buffer.
C15_Witness ==
    /\ op.name = "getValue"
    /\ assignedValue[op.obj] = Some([bare |-> TRUE, buffer |-> 1])
    /\ op.arg = Some([bare |-> FALSE, buffer |-> 1])
    /\ calls = <<>>

\* C18: an Attribute's location is resolved once, in its constructor: over
\* any sequence of `enabled` and `value` operations no location query is
\* issued, `location` keeps the constructor's value, and every enable/disable
\* call carries that location.
C18_LocationResolvedOnce ==
    [][/\ location' = location
       /\ \A a \in Attributes : location'[a] = GetAttribLocation(a)
       /\ \A i \in 1..Len(calls') :
            /\ calls'[i].fn # "getAttribLocation"
            /\ calls'[i].fn \in {"enableVertexAttribArray", "disableVertexAttribArray"} =>
                    calls'[i].args = <<location[op'.obj]>>]_vars

\* C18 witness: the second attribute was disabled through `enabled = false`
\* after a value assignment had enabled it; the call carried its location.
C18_Witness ==
    /\ op.name = "setEnabled"
    /\ op.obj = 2
    /\ assignedValue[2] # Undefined
    /\ calls = << Call("disableVertexAttribArray", <<location[2]>>) >>
    /\ location[2] = GetAttribLocation(2)

InitAttribute ==
    /\ \E enabled \in BOOLEAN : vertexAttribArray = [l \in Locations |-> enabled]
    /\ constructedOn = vertexAttribArray
    /\ arrayBufferBinding = Undefined
    /\ location = [a \in Attributes |-> GetAttribLocation(a)]
    /\ enabledCache = [a \in Attributes |-> Undefined]
    /\ valueCache = [a \in Attributes |-> Undefined]
    /\ assignedValue = [a \in Attributes |-> Undefined]
    /\ pc = Idle

NextAttribute ==
    /\ UNCHANGED <<contextVars, uniformVars, textureVars, matrixVars, arrayVars, vaoVars, texParameterVars>>
    /\ \/ \E a \in Attributes : ReadEnabled(a)
       \/ \E a \in Attributes, value \in BOOLEAN : AssignEnabled(a, value)
       \/ \E a \in Attributes, value \in AttributeValues : ValueEnable(a, value)
       \/ ValueBind
       \/ ValueSetter
       \/ ValueCache
       \/ \E a \in Attributes : ReadValue(a)

\* ------------------------------------------------- the device's global state
PolygonFaces == {FRONT, BACK, FRONT_AND_BACK}

TestFunctions == {NEVER, LESS, EQUAL, LEQUAL, GREATER, NOTEQUAL, GEQUAL, ALWAYS}

StencilTestActions == {KEEP, ZERO, REPLACE, INCR, INCR_WRAP, DECR, DECR_WRAP, INVERT}

BlendFunctions ==
    {ZERO, ONE, SRC_COLOR, ONE_MINUS_SRC_COLOR, DST_COLOR, ONE_MINUS_DST_COLOR,
     SRC_ALPHA, ONE_MINUS_SRC_ALPHA, DST_ALPHA, ONE_MINUS_DST_ALPHA,
     CONSTANT_COLOR, ONE_MINUS_CONSTANT_COLOR, CONSTANT_ALPHA,
     ONE_MINUS_CONSTANT_ALPHA, SRC_ALPHA_SATURATE}

\* The device's initial stencil masks: every bit set, as getParameter reports
\* it in a signed 32-bit integer.
AllBits == (2^30 - 1) + 2^30

Parameters ==
    {STENCIL_FUNC, STENCIL_REF, STENCIL_VALUE_MASK, STENCIL_WRITEMASK,
     STENCIL_BACK_FUNC, STENCIL_BACK_REF, STENCIL_BACK_VALUE_MASK, STENCIL_BACK_WRITEMASK,
     STENCIL_FAIL, STENCIL_PASS_DEPTH_FAIL, STENCIL_PASS_DEPTH_PASS,
     STENCIL_BACK_FAIL, STENCIL_BACK_PASS_DEPTH_FAIL, STENCIL_BACK_PASS_DEPTH_PASS,
     BLEND_SRC_RGB, BLEND_DST_RGB, BLEND_SRC_ALPHA, BLEND_DST_ALPHA,
     DEPTH_FUNC, CULL_FACE_MODE, VIEWPORT,
     POLYGON_OFFSET_FACTOR, POLYGON_OFFSET_UNITS, SAMPLE_COVERAGE_VALUE,
     SAMPLE_COVERAGE_INVERT, BLEND_EQUATION_RGB, BLEND_EQUATION_ALPHA}

Capabilities ==
    {BLEND, CULL_FACE, DEPTH_TEST, DITHER, POLYGON_OFFSET_FILL, SAMPLE_ALPHA_TO_COVERAGE,
     SAMPLE_COVERAGE, SCISSOR_TEST, STENCIL_TEST, RASTERIZER_DISCARD}

\* Of the capabilities only DITHER is enabled on a freshly created context.
InitialCapabilities == [c \in Capabilities |-> c = DITHER]

\* The state of a freshly created WebGL2 context (300 x 150 drawing buffer).
InitialParameters ==
    [n \in Parameters |->
        CASE n \in {STENCIL_FUNC, STENCIL_BACK_FUNC} -> ALWAYS
          [] n \in {STENCIL_REF, STENCIL_BACK_REF} -> 0
          [] n \in {STENCIL_VALUE_MASK, STENCIL_WRITEMASK,
                    STENCIL_BACK_VALUE_MASK, STENCIL_BACK_WRITEMASK} -> AllBits
          [] n \in {STENCIL_FAIL, STENCIL_PASS_DEPTH_FAIL, STENCIL_PASS_DEPTH_PASS,
                    STENCIL_BACK_FAIL, STENCIL_BACK_PASS_DEPTH_FAIL,
                    STENCIL_BACK_PASS_DEPTH_PASS} -> KEEP
          [] n \in {BLEND_SRC_RGB, BLEND_SRC_ALPHA} -> ONE
          [] n \in {BLEND_DST_RGB, BLEND_DST_ALPHA} -> ZERO
          [] n = DEPTH_FUNC -> LESS
          [] n = CULL_FACE_MODE -> BACK
          [] n = VIEWPORT -> <<0, 0, 300, 150>>
          [] n \in {POLYGON_OFFSET_FACTOR, POLYGON_OFFSET_UNITS} -> 0
          [] n = SAMPLE_COVERAGE_VALUE -> 1
          [] n = SAMPLE_COVERAGE_INVERT -> FALSE
          [] n \in {BLEND_EQUATION_RGB, BLEND_EQUATION_ALPHA} -> FUNC_ADD]

\* gl.stencilFuncSeparate(face, func, ref, mask); an invalid enum is an
\* INVALID_ENUM error and changes nothing.
StencilFuncSeparate(p, face, func, ref, mask) ==
    IF face \notin PolygonFaces \/ func \notin TestFunctions THEN p
    ELSE LET front == IF face \in {FRONT, FRONT_AND_BACK}
                      THEN [p EXCEPT ![STENCIL_FUNC] = func,
                                     ![STENCIL_REF] = ref,
                                     ![STENCIL_VALUE_MASK] = mask]
                      ELSE p
         IN  IF face \in {BACK, FRONT_AND_BACK}
             THEN [front EXCEPT ![STENCIL_BACK_FUNC] = func,
                                ![STENCIL_BACK_REF] = ref,
                                ![STENCIL_BACK_VALUE_MASK] = mask]
             ELSE front

\* gl.stencilMaskSeparate(face, mask).
StencilMaskSeparate(p, face, mask) ==
    IF face \notin PolygonFaces THEN p
    ELSE LET front == IF face \in {FRONT, FRONT_AND_BACK}
                      THEN [p EXCEPT ![STENCIL_WRITEMASK] = mask] ELSE p
         IN  IF face \in {BACK, FRONT_AND_BACK}
             THEN [front EXCEPT ![STENCIL_BACK_WRITEMASK] = mask] ELSE front

\* gl.stencilOpSeparate(face, fail, zfail, zpass).
StencilOpSeparate(p, face, fail, zfail, zpass) ==
    IF face \notin PolygonFaces \/ {fail, zfail, zpass} \ StencilTestActions # {} THEN p
    ELSE LET front == IF face \in {FRONT, FRONT_AND_BACK}
                      THEN [p EXCEPT ![STENCIL_FAIL] = fail,
                                     ![STENCIL_PASS_DEPTH_FAIL] = zfail,
                                     ![STENCIL_PASS_DEPTH_PASS] = zpass]
                      ELSE p
         IN  IF face \in {BACK, FRONT_AND_BACK}
             THEN [front EXCEPT ![STENCIL_BACK_FAIL] = fail,
                                ![STENCIL_BACK_PASS_DEPTH_FAIL] = zfail,
                                ![STENCIL_BACK_PASS_DEPTH_PASS] = zpass]
             ELSE front

\* gl.blendFuncSeparate(srcRGB, dstRGB, srcAlpha, dstAlpha).
BlendFuncSeparate(p, srcRGB, dstRGB, srcAlpha, dstAlpha) ==
    IF {srcRGB, dstRGB, srcAlpha, dstAlpha} \ BlendFunctions # {} THEN p
    ELSE [p EXCEPT ![BLEND_SRC_RGB] = srcRGB,
                   ![BLEND_DST_RGB] = dstRGB,
                   ![BLEND_SRC_ALPHA] = srcAlpha,
                   ![BLEND_DST_ALPHA] = dstAlpha]

\* gl.depthFunc(func).
DepthFunc(p, func) ==
    IF func \notin TestFunctions THEN p ELSE [p EXCEPT ![DEPTH_FUNC] = func]

\* gl.cullFace(mode).
CullFace(p, mode) ==
    IF mode \notin PolygonFaces THEN p ELSE [p EXCEPT ![CULL_FACE_MODE] = mode]

\* gl.viewport(x, y, width, height); a negative size is an INVALID_VALUE error.
Viewport(p, x, y, width, height) ==
    IF width < 0 \/ height < 0 THEN p
    ELSE [p EXCEPT ![VIEWPORT] = <<x, y, width, height>>]

\* gl.enable(cap) / gl.disable(cap): the capability flags after the call.
DeviceCaps(c, fn, args) ==
    CASE fn = "enable" /\ args[1] \in DOMAIN c -> [c EXCEPT ![args[1]] = TRUE]
      [] fn = "disable" /\ args[1] \in DOMAIN c -> [c EXCEPT ![args[1]] = FALSE]
      [] OTHER -> c

\* gl.polygonOffset(factor, units)
PolygonOffset(p, factor, units) ==
    [p EXCEPT ![POLYGON_OFFSET_FACTOR] = factor, ![POLYGON_OFFSET_UNITS] = units]

\* The device clamps a coverage value to [0, 1].
Clamp(value) == IF value < 0 THEN 0 ELSE IF value > 1 THEN 1 ELSE value

\* gl.sampleCoverage(value, invert)
SampleCoverage(p, value, invert) ==
    [p EXCEPT ![SAMPLE_COVERAGE_VALUE] = Clamp(value), ![SAMPLE_COVERAGE_INVERT] = invert]

BlendEquations == {FUNC_ADD, FUNC_SUBTRACT, FUNC_REVERSE_SUBTRACT, MIN, MAX}

\* gl.blendEquationSeparate(modeRGB, modeAlpha); an invalid enum is an
\* INVALID_ENUM error and changes nothing.
BlendEquationSeparate(p, modeRGB, modeAlpha) ==
    IF modeRGB \in BlendEquations /\ modeAlpha \in BlendEquations
    THEN [p EXCEPT ![BLEND_EQUATION_RGB] = modeRGB, ![BLEND_EQUATION_ALPHA] = modeAlpha]
    ELSE p

\* The device's state after the call `fn(args)`.
Device(p, fn, args) ==
    CASE fn = "stencilFuncSeparate" ->
            StencilFuncSeparate(p, args[1], args[2], args[3], args[4])
      [] fn = "stencilFunc" ->
            StencilFuncSeparate(p, FRONT_AND_BACK, args[1], args[2], args[3])
      [] fn = "stencilMaskSeparate" -> StencilMaskSeparate(p, args[1], args[2])
      [] fn = "stencilMask" -> StencilMaskSeparate(p, FRONT_AND_BACK, args[1])
      [] fn = "stencilOpSeparate" ->
            StencilOpSeparate(p, args[1], args[2], args[3], args[4])
      [] fn = "stencilOp" ->
            StencilOpSeparate(p, FRONT_AND_BACK, args[1], args[2], args[3])
      [] fn = "blendFuncSeparate" ->
            BlendFuncSeparate(p, args[1], args[2], args[3], args[4])
      [] fn = "depthFunc" -> DepthFunc(p, args[1])
      [] fn = "cullFace" -> CullFace(p, args[1])
      [] fn = "viewport" -> Viewport(p, args[1], args[2], args[3], args[4])
      [] fn = "polygonOffset" -> PolygonOffset(p, args[1], args[2])
      [] fn = "sampleCoverage" -> SampleCoverage(p, args[1], args[2])
      [] fn = "blendEquationSeparate" -> BlendEquationSeparate(p, args[1], args[2])
      [] fn = "blendEquation" -> BlendEquationSeparate(p, args[1], args[1])
      [] OTHER -> p

\* gl.getParameter(name).
GetParameter(name) == param[name]

\* gl.isEnabled(cap).
IsEnabled(cap) == caps[cap]

\* The getParameter calls a setter makes while it evaluates its arguments.
Queries(names) == [i \in 1..Len(names) |-> Call("getParameter", <<names[i]>>)]

\* Reading an accessor property that has a setter and no getter gives undefined.
NoGetter == Undefined

\* The conversion of an argument to a GLenum, GLint or GLuint: undefined -> NaN -> 0.
ToNumber(o) == IF o = Undefined THEN 0 ELSE Get(o)

\* The calls of the last operation that write device state.
WriteCalls == SelectSeq(calls, LAMBDA c : c.fn \notin {"getParameter", "isEnabled"})

\* A property setter of RenderingContext: it reads `reads` through its getters,
\* then issues the one call fn(args).
Assign(name, value, held, reads, fn, args) ==
    /\ pc.step = "idle"
    /\ param' = Device(param, fn, args)
    /\ calls' = Queries(reads) \o << Call(fn, args) >>
    /\ op' = CtxOp(name, value, held)
    /\ assigned' =
        [refFront |-> IF name = "stencilRefFront" THEN Some(value)
                      ELSE IF param'[STENCIL_REF] # param[STENCIL_REF] THEN Undefined
                      ELSE assigned.refFront,
         maskFront |-> IF name = "stencilMaskFront" THEN Some(value)
                       ELSE IF param'[STENCIL_WRITEMASK] # param[STENCIL_WRITEMASK]
                            THEN Undefined
                       ELSE assigned.maskFront]
    /\ caps' = DeviceCaps(caps, fn, args)
    /\ readCount' = IF name \in DOMAIN readCount
                    THEN [readCount EXCEPT ![name] = 0] ELSE readCount

\* ------------------------------------- RenderingContext: stencil function
stencilFuncFront == GetParameter(STENCIL_FUNC)

stencilRefFront == GetParameter(STENCIL_REF)

stencilValueMaskFront == GetParameter(STENCIL_VALUE_MASK)

stencilFuncBack == GetParameter(STENCIL_BACK_FUNC)

stencilRefBack == GetParameter(STENCIL_BACK_REF)

stencilValueMaskBack == GetParameter(STENCIL_BACK_VALUE_MASK)

stencilMaskFront == GetParameter(STENCIL_WRITEMASK)

stencilMaskBack == GetParameter(STENCIL_BACK_WRITEMASK)

\* Mutant of Set_stencilFuncFront: the reference is read from the back face.
Set_stencilFuncFrontBackRef(value) ==
    Assign("stencilFuncFront", value, stencilFuncFront,
           <<STENCIL_BACK_REF, STENCIL_WRITEMASK>>,
           "stencilFuncSeparate", <<FRONT, value, stencilRefBack, stencilMaskFront>>)

Set_stencilFuncFront(value) ==
    Assign("stencilFuncFront", value, stencilFuncFront,
           <<STENCIL_REF, STENCIL_WRITEMASK>>,
           "stencilFuncSeparate", <<FRONT, value, stencilRefFront, stencilMaskFront>>)

Set_stencilRefFront(value) ==
    Assign("stencilRefFront", value, stencilRefFront,
           <<STENCIL_FUNC, STENCIL_WRITEMASK>>,
           "stencilFuncSeparate", <<FRONT, stencilFuncFront, value, stencilMaskFront>>)

Set_stencilValueMaskFront(value) ==
    Assign("stencilValueMaskFront", value, stencilValueMaskFront,
           <<STENCIL_FUNC, STENCIL_BACK_REF>>,
           "stencilFuncSeparate", <<FRONT, stencilFuncFront, stencilRefBack, value>>)

Set_stencilFuncBack(value) ==
    Assign("stencilFuncBack", value, stencilFuncBack,
           <<STENCIL_BACK_REF, STENCIL_BACK_VALUE_MASK>>,
           "stencilFuncSeparate", <<BACK, value, stencilRefBack, stencilValueMaskBack>>)

Set_stencilRefBack(value) ==
    Assign("stencilRefBack", value, stencilRefBack,
           <<STENCIL_BACK_FUNC, STENCIL_BACK_VALUE_MASK>>,
           "stencilFuncSeparate", <<BACK, stencilFuncBack, value, stencilValueMaskBack>>)

Set_stencilValueMaskBack(value) ==
    Assign("stencilValueMaskBack", value, stencilValueMaskBack,
           <<STENCIL_BACK_FUNC, STENCIL_BACK_REF>>,
           "stencilFuncSeparate", <<BACK, stencilFuncBack, stencilRefBack, value>>)

Set_stencilMaskFront(value) ==
    Assign("stencilMaskFront", value, stencilMaskFront, <<>>,
           "stencilMaskSeparate", <<FRONT, value>>)

Set_stencilMaskBack(value) ==
    Assign("stencilMaskBack", value, stencilMaskBack, <<>>,
           "stencilMaskSeparate", <<BACK, value>>)

Set_stencilMask(value) ==
    Assign("stencilMask", value, 0, <<>>, "stencilMask", <<value>>)

\* The values the model assigns.
FuncInputs == {NEVER, ALWAYS}

RefInputs == {0, 5}

MaskInputs == {15, 255}

NextStencilFunc ==
    /\ UNCHANGED <<attributeVars, uniformVars, textureVars, matrixVars, arrayVars, vaoVars, texParameterVars>>
    /\ \/ \E value \in FuncInputs : Set_stencilFuncFront(value)
       \/ \E value \in RefInputs : Set_stencilRefFront(value)
       \/ \E value \in MaskInputs : Set_stencilValueMaskFront(value)
       \/ \E value \in FuncInputs : Set_stencilFuncBack(value)
       \/ \E value \in RefInputs : Set_stencilRefBack(value)
       \/ \E value \in MaskInputs : Set_stencilValueMaskBack(value)
       \/ \E value \in MaskInputs : Set_stencilMaskFront(value)
       \/ \E value \in MaskInputs : Set_stencilMaskBack(value)
       \/ \E value \in MaskInputs : Set_stencilMask(value)

\* ------------------------------------ RenderingContext: stencil operation
stencilFailFront == GetParameter(STENCIL_FAIL)

stencilZFailFront == GetParameter(STENCIL_PASS_DEPTH_FAIL)

stencilZPassFront == GetParameter(STENCIL_PASS_DEPTH_PASS)

stencilFailBack == GetParameter(STENCIL_BACK_FAIL)

stencilZFailBack == GetParameter(STENCIL_BACK_PASS_DEPTH_FAIL)

stencilZPassBack == GetParameter(STENCIL_BACK_PASS_DEPTH_PASS)

Set_stencilFailFront(value) ==
    Assign("stencilFailFront", value, stencilFailFront,
           <<STENCIL_PASS_DEPTH_FAIL, STENCIL_PASS_DEPTH_PASS>>,
           "stencilOpSeparate", <<FRONT, value, stencilZFailFront, stencilZPassFront>>)

\* Mutant of Set_stencilZFailFront: the fail action is read from the back face.
Set_stencilZFailFrontBackFail(value) ==
    Assign("stencilZFailFront", value, stencilZFailFront,
           <<STENCIL_BACK_FAIL, STENCIL_PASS_DEPTH_PASS>>,
           "stencilOpSeparate", <<FRONT, stencilFailBack, value, stencilZPassFront>>)

Set_stencilZFailFront(value) ==
    Assign("stencilZFailFront", value, stencilZFailFront,
           <<STENCIL_FAIL, STENCIL_PASS_DEPTH_PASS>>,
           "stencilOpSeparate", <<FRONT, stencilFailFront, value, stencilZPassFront>>)

Set_stencilZPassFront(value) ==
    Assign("stencilZPassFront", value, stencilZPassFront,
           <<STENCIL_FAIL, STENCIL_PASS_DEPTH_FAIL>>,
           "stencilOpSeparate", <<FRONT, stencilFailFront, stencilZFailFront, value>>)

Set_stencilFailBack(value) ==
    Assign("stencilFailBack", value, stencilFailBack,
           <<STENCIL_BACK_PASS_DEPTH_FAIL, STENCIL_BACK_PASS_DEPTH_PASS>>,
           "stencilOpSeparate", <<BACK, value, stencilZFailBack, stencilZPassBack>>)

Set_stencilZFailBack(value) ==
    Assign("stencilZFailBack", value, stencilZFailBack,
           <<STENCIL_BACK_FAIL, STENCIL_BACK_PASS_DEPTH_PASS>>,
           "stencilOpSeparate", <<BACK, stencilFailBack, value, stencilZPassBack>>)

Set_stencilZPassBack(value) ==
    Assign("stencilZPassBack", value, stencilZPassBack,
           <<STENCIL_BACK_FAIL, STENCIL_BACK_PASS_DEPTH_FAIL>>,
           "stencilOpSeparate", <<BACK, stencilFailBack, stencilZFailBack, value>>)

ActionInputs == {KEEP, ZERO, REPLACE}

NextStencilOp ==
    /\ UNCHANGED <<attributeVars, uniformVars, textureVars, matrixVars, arrayVars, vaoVars, texParameterVars>>
    /\ \/ \E value \in ActionInputs : Set_stencilFailFront(value)
       \/ \E value \in ActionInputs : Set_stencilZFailFront(value)
       \/ \E value \in ActionInputs : Set_stencilZPassFront(value)
       \/ \E value \in ActionInputs : Set_stencilFailBack(value)
       \/ \E value \in ActionInputs : Set_stencilZFailBack(value)
       \/ \E value \in ActionInputs : Set_stencilZPassBack(value)

\* --------------------------------- RenderingContext: both-face properties
\* stencilFunc, stencilRef, stencilValueMask, stencilFail, stencilZFail and
\* stencilZPass are declared with a setter only.
stencilFunc == NoGetter

stencilRef == NoGetter

stencilValueMask == NoGetter

stencilFail == NoGetter

stencilZFail == NoGetter

stencilZPass == NoGetter

Set_stencilFunc(value) ==
    Assign("stencilFunc", value, 0, <<>>,
           "stencilFunc", <<value, ToNumber(stencilRef), ToNumber(stencilValueMask)>>)

Set_stencilRef(value) ==
    Assign("stencilRef", value, 0, <<>>,
           "stencilFunc", <<ToNumber(stencilFunc), value, ToNumber(stencilValueMask)>>)

Set_stencilValueMask(value) ==
    Assign("stencilValueMask", value, 0, <<>>,
           "stencilFunc", <<ToNumber(stencilFunc), ToNumber(stencilRef), value>>)

Set_stencilFail(value) ==
    Assign("stencilFail", value, 0, <<>>,
           "stencilOp", <<value, ToNumber(stencilZFail), ToNumber(stencilZPass)>>)

Set_stencilZFail(value) ==
    Assign("stencilZFail", value, 0, <<>>,
           "stencilOp", <<ToNumber(stencilFail), value, ToNumber(stencilZPass)>>)

Set_stencilZPass(value) ==
    Assign("stencilZPass", value, 0, <<>>,
           "stencilOp", <<ToNumber(stencilFail), ToNumber(stencilZFail), value>>)

NextStencilBothFaces ==
    /\ UNCHANGED <<attributeVars, uniformVars, textureVars, matrixVars, arrayVars, vaoVars, texParameterVars>>
    /\ \/ \E value \in FuncInputs : Set_stencilFunc(value)
       \/ \E value \in RefInputs : Set_stencilRef(value)
       \/ \E value \in MaskInputs : Set_stencilValueMask(value)
       \/ \E value \in ActionInputs : Set_stencilFail(value)
       \/ \E value \in ActionInputs : Set_stencilZFail(value)
       \/ \E value \in ActionInputs : Set_stencilZPass(value)
       \/ \E value \in RefInputs : Set_stencilRefBack(value)
       \/ \E value \in MaskInputs : Set_stencilValueMaskBack(value)
       \/ \E value \in ActionInputs : Set_stencilZPassBack(value)

\* ------------------------------------- RenderingContext: blend function
blendFuncSrcRgb == GetParameter(BLEND_SRC_RGB)

blendFuncDstRgb == GetParameter(BLEND_DST_RGB)

blendFuncSrcAlpha == GetParameter(BLEND_SRC_ALPHA)

blendFuncDstAlpha == GetParameter(BLEND_DST_ALPHA)

Set_blendFuncSrcRgb(value) ==
    Assign("blendFuncSrcRgb", value, blendFuncSrcRgb,
           <<BLEND_DST_RGB, BLEND_SRC_ALPHA, BLEND_DST_ALPHA>>,
           "blendFuncSeparate",
           <<value, blendFuncDstRgb, blendFuncSrcAlpha, blendFuncDstAlpha>>)

Set_blendFuncDstRgb(value) ==
    Assign("blendFuncDstRgb", value, blendFuncDstRgb,
           <<BLEND_SRC_RGB, BLEND_SRC_ALPHA, BLEND_DST_ALPHA>>,
           "blendFuncSeparate",
           <<blendFuncSrcRgb, value, blendFuncSrcAlpha, blendFuncDstAlpha>>)

Set_blendFuncSrcAlpha(value) ==
    Assign("blendFuncSrcAlpha", value, blendFuncSrcAlpha,
           <<BLEND_SRC_RGB, BLEND_DST_RGB, BLEND_DST_ALPHA>>,
           "blendFuncSeparate",
           <<blendFuncSrcRgb, blendFuncDstRgb, value, blendFuncDstAlpha>>)

Set_blendFuncDstAlpha(value) ==
    Assign("blendFuncDstAlpha", value, blendFuncDstAlpha,
           <<BLEND_SRC_RGB, BLEND_DST_RGB, BLEND_SRC_ALPHA>>,
           "blendFuncSeparate",
           <<blendFuncSrcRgb, blendFuncDstRgb, blendFuncSrcAlpha, value>>)

\* Mutant of Set_blendFuncSrc: the RGB destination is passed for both destinations.
Set_blendFuncSrcOneDst(value) ==
    Assign("blendFuncSrc", value, 0,
           <<BLEND_DST_RGB, BLEND_DST_RGB>>,
           "blendFuncSeparate", <<value, blendFuncDstRgb, value, blendFuncDstRgb>>)

Set_blendFuncSrc(value) ==
    Assign("blendFuncSrc", value, 0,
           <<BLEND_DST_RGB, BLEND_DST_ALPHA>>,
           "blendFuncSeparate", <<value, blendFuncDstRgb, value, blendFuncDstAlpha>>)

Set_blendFuncDst(value) ==
    Assign("blendFuncDst", value, 0,
           <<BLEND_SRC_RGB, BLEND_SRC_ALPHA>>,
           "blendFuncSeparate", <<blendFuncSrcRgb, value, blendFuncSrcAlpha, value>>)

BlendInputs == {ZERO, ONE, SRC_ALPHA, ONE_MINUS_SRC_ALPHA}

NextBlend ==
    /\ UNCHANGED <<attributeVars, uniformVars, textureVars, matrixVars, arrayVars, vaoVars, texParameterVars>>
    /\ \/ \E value \in BlendInputs : Set_blendFuncSrcRgb(value)
       \/ \E value \in BlendInputs : Set_blendFuncDstRgb(value)
       \/ \E value \in BlendInputs : Set_blendFuncSrcAlpha(value)
       \/ \E value \in BlendInputs : Set_blendFuncDstAlpha(value)
       \/ \E value \in BlendInputs : Set_blendFuncSrc(value)
       \/ \E value \in BlendInputs : Set_blendFuncDst(value)

\* --------------------------------------- RenderingContext: simple slots
\* Mutant of depthFunc: the getter answers with the value of the first read.
depthFuncStale == InitialParameters[DEPTH_FUNC]

depthFunc == GetParameter(DEPTH_FUNC)

cullFace == GetParameter(CULL_FACE_MODE)

viewport == GetParameter(VIEWPORT)

enableBlend == IsEnabled(BLEND)

\* Mutant of Set_depthFunc: a cached property that writes only on change.
Set_depthFuncOnChange(value) ==
    IF depthFunc = value
    THEN /\ pc.step = "idle"
         /\ calls' = Queries(<<DEPTH_FUNC>>)
         /\ op' = CtxOp("depthFunc", value, depthFunc)
         /\ UNCHANGED contextVars
    ELSE Assign("depthFunc", value, depthFunc, <<>>, "depthFunc", <<value>>)

Set_depthFunc(value) ==
    Assign("depthFunc", value, depthFunc, <<>>, "depthFunc", <<value>>)

Set_cullFace(value) ==
    Assign("cullFace", value, cullFace, <<>>, "cullFace", <<value>>)

Set_viewport(value) ==
    Assign("viewport", value, viewport, <<>>, "viewport", value)

Set_enableBlend(value) ==
    Assign("enableBlend", value, enableBlend, <<>>,
           IF value THEN "enable" ELSE "disable", <<BLEND>>)

\* A read of a RenderingContext property; `held` names the property read.
ReadOp(name, result) == [name |-> "get", obj |-> 0, arg |-> result, held |-> name]

\* A property getter of RenderingContext: it issues the one query and returns
\* what the device answers.
Read(name, result, query) ==
    /\ pc.step = "idle"
    /\ calls' = << query >>
    /\ op' = ReadOp(name, result)
    /\ readCount' = IF name \in DOMAIN readCount
                    THEN [readCount EXCEPT ![name] = IF @ < MaxReads THEN @ + 1 ELSE @]
                    ELSE readCount
    /\ UNCHANGED <<param, caps, assigned>>

\* Mutant of Get_depthFunc: a read after the first one is served without a query.
Get_depthFuncCached ==
    /\ pc.step = "idle"
    /\ calls' = IF readCount["depthFunc"] = 0
                THEN << Call("getParameter", <<DEPTH_FUNC>>) >> ELSE <<>>
    /\ op' = ReadOp("depthFunc", depthFunc)
    /\ readCount' = [readCount EXCEPT !["depthFunc"] = IF @ < MaxReads THEN @ + 1 ELSE @]
    /\ UNCHANGED <<param, caps, assigned>>

Get_depthFunc == Read("depthFunc", depthFunc, Call("getParameter", <<DEPTH_FUNC>>))

Get_cullFace == Read("cullFace", cullFace, Call("getParameter", <<CULL_FACE_MODE>>))

Get_viewport == Read("viewport", viewport, Call("getParameter", <<VIEWPORT>>))

Get_enableBlend == Read("enableBlend", enableBlend, Call("isEnabled", <<BLEND>>))

DepthFuncInputs == {LESS, GREATER, ALWAYS}

ViewportInputs == {<<0, 0, 300, 150>>, <<0, 0, 64, 64>>, <<8, 8, 16, 16>>}

NextState ==
    /\ UNCHANGED <<attributeVars, uniformVars, textureVars, matrixVars, arrayVars, vaoVars, texParameterVars>>
    /\ \/ \E value \in DepthFuncInputs : Set_depthFunc(value)
       \/ \E value \in {FRONT, BACK, FRONT_AND_BACK} : Set_cullFace(value)
       \/ \E value \in ViewportInputs : Set_viewport(value)
       \/ \E value \in BOOLEAN : Set_enableBlend(value)
       \/ Get_depthFunc
       \/ Get_cullFace
       \/ Get_viewport
       \/ Get_enableBlend

\* ----------------------------------------- RenderingContext: paired slots
polygonOffsetFactor == GetParameter(POLYGON_OFFSET_FACTOR)

polygonOffsetUnits == GetParameter(POLYGON_OFFSET_UNITS)

sampleCoverageValue == GetParameter(SAMPLE_COVERAGE_VALUE)

sampleCoverageInvert == GetParameter(SAMPLE_COVERAGE_INVERT)

blendEquationRgb == GetParameter(BLEND_EQUATION_RGB)

blendEquationAlpha == GetParameter(BLEND_EQUATION_ALPHA)

Set_polygonOffsetFactor(value) ==
    Assign("polygonOffsetFactor", value, polygonOffsetFactor, <<POLYGON_OFFSET_UNITS>>,
           "polygonOffset", <<value, polygonOffsetUnits>>)

\* Mutant of Set_polygonOffsetUnits: the factor is not read back.
Set_polygonOffsetUnitsAlone(value) ==
    Assign("polygonOffsetUnits", value, polygonOffsetUnits, <<>>,
           "polygonOffset", <<0, value>>)

Set_polygonOffsetUnits(value) ==
    Assign("polygonOffsetUnits", value, polygonOffsetUnits, <<POLYGON_OFFSET_FACTOR>>,
           "polygonOffset", <<polygonOffsetFactor, value>>)

Set_sampleCoverageValue(value) ==
    Assign("sampleCoverageValue", value, sampleCoverageValue, <<SAMPLE_COVERAGE_INVERT>>,
           "sampleCoverage", <<value, sampleCoverageInvert>>)

Set_sampleCoverageInvert(value) ==
    Assign("sampleCoverageInvert", value, sampleCoverageInvert, <<SAMPLE_COVERAGE_VALUE>>,
           "sampleCoverage", <<sampleCoverageValue, value>>)

Set_blendEquationRgb(value) ==
    Assign("blendEquationRgb", value, blendEquationRgb, <<BLEND_EQUATION_ALPHA>>,
           "blendEquationSeparate", <<value, blendEquationAlpha>>)

Set_blendEquationAlpha(value) ==
    Assign("blendEquationAlpha", value, blendEquationAlpha, <<BLEND_EQUATION_RGB>>,
           "blendEquationSeparate", <<blendEquationRgb, value>>)

\* `blendEquation` has a setter and no getter.
Set_blendEquation(value) ==
    Assign("blendEquation", value, NoGetter, <<>>, "blendEquation", <<value>>)

OffsetInputs == {0, 1, 2}

\* Coverage values inside the range the device keeps.
CoverageInputs == {0, 1}

BlendEquationInputs == {FUNC_ADD, FUNC_SUBTRACT, MAX}

NextPaired ==
    /\ UNCHANGED <<attributeVars, uniformVars, textureVars, matrixVars, arrayVars, vaoVars,
                   texParameterVars>>
    /\ \/ \E value \in OffsetInputs : Set_polygonOffsetFactor(value)
       \/ \E value \in OffsetInputs : Set_polygonOffsetUnits(value)
       \/ \E value \in CoverageInputs : Set_sampleCoverageValue(value)
       \/ \E value \in BOOLEAN : Set_sampleCoverageInvert(value)
       \/ \E value \in BlendEquationInputs : Set_blendEquationRgb(value)
       \/ \E value \in BlendEquationInputs : Set_blendEquationAlpha(value)
       \/ \E value \in BlendEquationInputs : Set_blendEquation(value)

\* ------------------------------------ RenderingContext: enable* properties
\* The ten enable* properties: the capability the getter passes to isEnabled
\* and the ones the setter passes to enable and to disable.
EnableProperties ==
    [enableBlend |-> [isEnabled |-> BLEND, enable |-> BLEND, disable |-> BLEND],
     enableCullFace |->
        [isEnabled |-> CULL_FACE, enable |-> CULL_FACE, disable |-> CULL_FACE],
     enableDepthTest |->
        [isEnabled |-> DEPTH_TEST, enable |-> DEPTH_TEST, disable |-> DEPTH_TEST],
     enableDither |-> [isEnabled |-> DITHER, enable |-> DITHER, disable |-> DITHER],
     enablePolygonOffsetFill |->
        [isEnabled |-> POLYGON_OFFSET_FILL, enable |-> POLYGON_OFFSET_FILL,
         disable |-> POLYGON_OFFSET_FILL],
     enableSampleAlphaToCoverage |->
        [isEnabled |-> SAMPLE_ALPHA_TO_COVERAGE, enable |-> SAMPLE_ALPHA_TO_COVERAGE,
         disable |-> SAMPLE_ALPHA_TO_COVERAGE],
     enableSampleCoverage |->
        [isEnabled |-> SAMPLE_COVERAGE, enable |-> SAMPLE_COVERAGE,
         disable |-> SAMPLE_COVERAGE],
     enableScissorTest |->
        [isEnabled |-> SCISSOR_TEST, enable |-> SCISSOR_TEST, disable |-> SCISSOR_TEST],
     enableStencilTest |->
        [isEnabled |-> STENCIL_TEST, enable |-> STENCIL_TEST, disable |-> STENCIL_TEST],
     enableRasterizerDiscard |->
        [isEnabled |-> RASTERIZER_DISCARD, enable |-> RASTERIZER_DISCARD,
         disable |-> RASTERIZER_DISCARD]]

\* get enable*(): the value returned.
enable(name) == IsEnabled(EnableProperties[name].isEnabled)

\* Mutant of Set_enable: the capability is enabled whatever is assigned.
Set_enableAlways(name, value) ==
    Assign(name, value, enable(name), <<>>, "enable", <<EnableProperties[name].enable>>)

\* context.enable* = value
Set_enable(name, value) ==
    IF value
    THEN Assign(name, value, enable(name), <<>>, "enable", <<EnableProperties[name].enable>>)
    ELSE Assign(name, value, enable(name), <<>>, "disable",
                <<EnableProperties[name].disable>>)

\* context.enable* read by the application.
Get_enable(name) ==
    Read(name, enable(name), Call("isEnabled", <<EnableProperties[name].isEnabled>>))

NextEnable ==
    /\ UNCHANGED <<attributeVars, uniformVars, textureVars, matrixVars, arrayVars, vaoVars,
                   texParameterVars>>
    /\ \/ \E name \in DOMAIN EnableProperties, value \in BOOLEAN : Set_enable(name, value)
       \/ \E name \in DOMAIN EnableProperties : Get_enable(name)

\* ------------------------------------------------------------------ Uniform
Uniforms == 1..NumUniforms

MatrixKinds == {"FloatMatrix4x4Uniform", "FloatMatrix4x3Uniform"}

UniformKinds ==
    MatrixKinds \cup {"FloatVector2Uniform", "UnsignedIntegerVector2Uniform",
                      "IntegerVector3Uniform"}

\* A slot in which no Uniform has been constructed yet.
NoUniform ==
    [kind |-> "none", location |-> 0, transpose |-> FALSE,
     sourceOffset |-> 0, sourceLength |-> 0]

\* gl.getUniformLocation: the device gives each uniform of a program its own location.
GetUniformLocation(u) == u - 1

\* An iterable handed to a setter is known by its length.
UniformValues == {3, 12, 16, 20}

\* (sourceOffset, sourceLength) windows into the source sequence.
SourceWindows == {<<0, 0>>, <<4, 16>>}

\* new <Kind>(program, activeInfo), followed by the assignments of the public
\* fields transpose (matrix kinds only), sourceOffset and sourceLength.
NewUniform(u, kind, transpose, sourceOffset, sourceLength) ==
    /\ uniforms[u] = NoUniform
    /\ transpose => kind \in MatrixKinds
    /\ uniforms' = [uniforms EXCEPT ![u] =
                       [kind |-> kind, location |-> GetUniformLocation(u),
                        transpose |-> transpose, sourceOffset |-> sourceOffset,
                        sourceLength |-> sourceLength]]
    /\ raised' = "none"
    /\ op' = Op("newUniform", u, 0)
    /\ calls' = <<>>

FloatMatrix4x4Uniform_arraySetter(this, value) ==
    << Call("uniformMatrix4fv",
            <<this.location, this.transpose, value, this.sourceOffset, this.sourceLength>>) >>

\* Mutant of FloatMatrix4x3Uniform_arraySetter: the 4x4 entry point is called.
FloatMatrix4x3Uniform_arraySetter4x4(this, value) ==
    << Call("uniformMatrix4fv",
            <<this.location, this.transpose, value, this.sourceOffset, this.sourceLength>>) >>

FloatMatrix4x3Uniform_arraySetter(this, value) ==
    << Call("uniformMatrix4x3fv",
            <<this.location, this.transpose, value, this.sourceOffset, this.sourceLength>>) >>

FloatVector2Uniform_iterableSetterInternal(this, value) ==
    << Call("uniform2fv", <<this.location, value, this.sourceOffset, this.sourceLength>>) >>

UnsignedIntegerVector2Uniform_iterableSetter(this, value) ==
    << Call("uniform2uiv", <<this.location, value, this.sourceOffset, this.sourceLength>>) >>

IntegerVector3Uniform_iterableSetter(this, value) ==
    << Call("uniform3iv", <<this.location, value, this.sourceOffset, this.sourceLength>>) >>

\* The setter of the object's class (virtual dispatch on the subtype).
SubtypeSetter(this, value) ==
    CASE this.kind = "FloatMatrix4x4Uniform" -> FloatMatrix4x4Uniform_arraySetter(this, value)
      [] this.kind = "FloatMatrix4x3Uniform" -> FloatMatrix4x3Uniform_arraySetter(this, value)
      [] this.kind = "FloatVector2Uniform" ->
            FloatVector2Uniform_iterableSetterInternal(this, value)
      [] this.kind = "UnsignedIntegerVector2Uniform" ->
            UnsignedIntegerVector2Uniform_iterableSetter(this, value)
      [] this.kind = "IntegerVector3Uniform" -> IntegerVector3Uniform_iterableSetter(this, value)

\* uniform.arraySetter(value) / uniform.iterableSetter(value).
InvokeSetter(u, value) ==
    /\ uniforms[u] # NoUniform
    /\ calls' = SubtypeSetter(uniforms[u], value)
    /\ op' = Op("iterableSetter", u, value)
    /\ raised' = "none"
    /\ UNCHANGED uniforms

\* rows x columns of a matrix kind.
MatrixElementCount(kind) == IF kind = "FloatMatrix4x4Uniform" THEN 4 * 4 ELSE 4 * 3

\* Mutant of AssignUniformValue: the source length is not validated.
AssignUniformValueUnchecked(u, value) ==
    /\ uniforms[u] # NoUniform
    /\ op' = Op("setUniformValue", u, value)
    /\ raised' = "none"
    /\ calls' = SubtypeSetter(uniforms[u], value)
    /\ UNCHANGED uniforms

\* `uniform.value = value` with an iterable: matrix forms validate the source
\* length, then the subtype's setter runs.
AssignUniformValue(u, value) ==
    /\ uniforms[u] # NoUniform
    /\ op' = Op("setUniformValue", u, value)
    /\ IF uniforms[u].kind \in MatrixKinds
          /\ value % MatrixElementCount(uniforms[u].kind) # 0
       THEN /\ raised' = "ValueShapeError"
            /\ calls' = <<>>
       ELSE /\ raised' = "none"
            /\ calls' = SubtypeSetter(uniforms[u], value)
    /\ UNCHANGED uniforms

InitUniform ==
    /\ uniforms = [u \in Uniforms |-> NoUniform]
    /\ raised = "none"

NextUniform ==
    /\ UNCHANGED <<attributeVars, contextVars, textureVars, matrixVars, arrayVars, vaoVars, texParameterVars>>
    /\ pc.step = "idle"
    /\ \/ \E u \in Uniforms, kind \in UniformKinds, transpose \in BOOLEAN,
            window \in SourceWindows :
                NewUniform(u, kind, transpose, window[1], window[2])
       \/ \E u \in Uniforms, value \in UniformValues : InvokeSetter(u, value)
       \/ \E u \in Uniforms, value \in UniformValues : AssignUniformValue(u, value)

\* ------------------------------------------------------------ Uniform: claims
\* The device entry point of each concrete Uniform subtype.
EntryPoint ==
    [kind \in UniformKinds |->
        CASE kind = "FloatMatrix4x4Uniform" -> "uniformMatrix4fv"
          [] kind = "FloatMatrix4x3Uniform" -> "uniformMatrix4x3fv"
          [] kind = "FloatVector2Uniform" -> "uniform2fv"
          [] kind = "UnsignedIntegerVector2Uniform" -> "uniform2uiv"
          [] kind = "IntegerVector3Uniform" -> "uniform3iv"]

\* C13: each concrete Uniform subtype's array/iterable setter issues exactly
\* one device call per invocation, to the entry point of its kind and shape,
\* passing the uniform's own location, the given value, its sourceOffset and
\* sourceLength and, for matrix forms, its transpose flag; no other subtype's
\* setter calls that entry point.
C13_SetterCallsOwnEntryPoint ==
    [][op'.name = "iterableSetter" =>
        LET this == uniforms[op'.obj]
        IN  /\ calls' =
                << Call(EntryPoint[this.kind],
                        IF this.kind \in MatrixKinds
                        THEN <<this.location, this.transpose, op'.arg,
                               this.sourceOffset, this.sourceLength>>
                        ELSE <<this.location, op'.arg,
                               this.sourceOffset, this.sourceLength>>) >>
            /\ \A kind \in UniformKinds \ {this.kind} :
                  SubtypeSetter([this EXCEPT !.kind = kind], op'.arg)[1].fn
                      # calls'[1].fn]_vars

\* C13 witness: the setter of a transposed 4x3 matrix uniform ran while a
\* uniform of another kind existed at another location.
C13_Witness ==
    /\ op.name = "iterableSetter"
    /\ op.obj = 2
    /\ uniforms[2].kind = "FloatMatrix4x3Uniform"
    /\ uniforms[2].transpose
    /\ uniforms[1].kind = "FloatVector2Uniform"
    /\ calls = << Call("uniformMatrix4x3fv", <<1, TRUE, 12, 4, 16>>) >>

\* C14: assigning to a matrix Uniform a source sequence whose length is not
\* an exact multiple of rows x columns raises a ValueShapeError and issues
\* zero device calls.
C14_MatrixShapeError ==
    [][(/\ op'.name = "setUniformValue"
        /\ \/ uniforms[op'.obj].kind = "FloatMatrix4x4Uniform" /\ op'.arg % 16 # 0
           \/ uniforms[op'.obj].kind = "FloatMatrix4x3Uniform" /\ op'.arg % 12 # 0) =>
            (raised' = "ValueShapeError" /\ calls' = <<>>)]_vars

\* C14 witness: a 4x3 matrix uniform was assigned a sequence of length 16 and
\* the assignment raised ValueShapeError without a device call.
C14_Witness ==
    /\ op.name = "setUniformValue"
    /\ uniforms[op.obj].kind = "FloatMatrix4x3Uniform"
    /\ op.arg = 16
    /\ raised = "ValueShapeError"
    /\ calls = <<>>

\* ------------------------------------------------------------------ Texture
Textures == 1..NumTextures

\* The texture units of the device.
TextureUnits == {0, 1}

\* The internal formats whose default data type is UNSIGNED_BYTE.
UnsignedByteFormats ==
    {RGB, RGBA, LUMINANCE_ALPHA, LUMINANCE, ALPHA, R8, R8UI, RG8,
     RG8UI, RGB8, SRGB8, RGB565, RGB8UI, RGBA8, SRGB8_ALPHA8, RGB5_A1,
     RGBA4, RGBA8UI}

\* The internal formats whose default data type is FLOAT.
FloatFormats ==
    {R16F, R32F, RG16F, RG32F, R11F_G11F_B10F, RGB9_E5, RGB16F,
     RGB32F, RGBA16F, RGBA32F}

\* Mutant of Texture2D_type: the default of the internal format comes first.
Texture2D_typeDefaultFirst(this) ==
    IF this.internalFormat \in UnsignedByteFormats THEN Some(UNSIGNED_BYTE)
    ELSE IF this.internalFormat \in FloatFormats THEN Some(FLOAT)
    ELSE IF this.internalFormat = RGB10_A2 THEN Some(UNSIGNED_INT_2_10_10_10_REV)
    ELSE this.type

\* get type(): the assigned data type, else the default of the internal
\* format; Undefined stands for the thrown Error.
Texture2D_type(this) ==
    IF this.type # Undefined THEN this.type
    ELSE IF this.internalFormat \in UnsignedByteFormats THEN Some(UNSIGNED_BYTE)
    ELSE IF this.internalFormat \in FloatFormats THEN Some(FLOAT)
    ELSE IF this.internalFormat = RGB10_A2 THEN Some(UNSIGNED_INT_2_10_10_10_REV)
    ELSE Undefined

\* The case labels of the switch in get format().
FormatCases ==
    {RGB, RGB8, SRGB8, RGB565, R11F_G11F_B10F, RGB9_E5, RGB16F, RGB32F,
     RGBA, RGBA8, SRGB8_ALPHA8, RGB5_A1, RGB10_A2, RGBA4, RGBA16F, RGBA32F,
     LUMINANCE_ALPHA, LUMINANCE, ALPHA, R8, R16F, R32F, R8UI, RG8, RG16F, RG32F,
     RG8UI, RGB8UI, RGBA8UI}

\* get format(): the texel format of the internal format.
Texture2D_format(this) ==
    IF this.format # Undefined THEN Get(this.format)
    ELSE IF this.internalFormat \in {RGB, RGB8, SRGB8, RGB565,
                                   R11F_G11F_B10F, RGB9_E5, RGB16F, RGB32F} THEN RGB
    ELSE IF this.internalFormat \in {RGBA, RGBA8, SRGB8_ALPHA8, RGB5_A1,
                                   RGB10_A2, RGBA4, RGBA16F, RGBA32F} THEN RGBA
    ELSE IF this.internalFormat = LUMINANCE_ALPHA THEN LUMINANCE_ALPHA
    ELSE IF this.internalFormat = LUMINANCE THEN LUMINANCE
    ELSE IF this.internalFormat = ALPHA THEN ALPHA
    ELSE IF this.internalFormat \in {R8, R16F, R32F} THEN RED
    ELSE IF this.internalFormat = R8UI THEN RED_INTEGER
    ELSE IF this.internalFormat \in {RG8, RG16F, RG32F} THEN RG
    ELSE IF this.internalFormat = RG8UI THEN RG_INTEGER
    ELSE IF this.internalFormat = RGB8UI THEN RGB_INTEGER
    ELSE IF this.internalFormat = RGBA8UI THEN RGBA_INTEGER
    ELSE this.internalFormat

\* gl.activeTexture(texture): an enum outside TEXTURE0 + unit is an INVALID_ENUM error.
ActiveTexture(active, texture) ==
    IF texture - TEXTURE0 \in TextureUnits THEN texture - TEXTURE0 ELSE active

\* gl.bindTexture(target, texture), on the unit `active`.
BindTexture(binding, active, target, texture) ==
    IF target = TEXTURE_2D THEN [binding EXCEPT ![active] = texture] ELSE binding

\* An operation on a texture; `held` is the texture bound on the active unit before it.
TextureOp(name, t, arg) ==
    [name |-> name, obj |-> t, arg |-> arg, held |-> textureBinding[activeTexture]]

\* Mutant of TextureBind: the call is skipped when the texture is already bound.
TextureBindIfUnbound(t) ==
    /\ op' = TextureOp("bind", t, 0)
    /\ calls' = IF textureBinding[activeTexture] = t THEN <<>>
                ELSE << Call("bindTexture", <<TEXTURE_2D, t>>) >>
    /\ textureBinding' = BindTexture(textureBinding, activeTexture, TEXTURE_2D, t)
    /\ UNCHANGED <<textures, activeTexture>>

\* texture.bind().
TextureBind(t) ==
    /\ op' = TextureOp("bind", t, 0)
    /\ calls' = << Call("bindTexture", <<TEXTURE_2D, t>>) >>
    /\ textureBinding' = BindTexture(textureBinding, activeTexture, TEXTURE_2D, t)
    /\ UNCHANGED <<textures, activeTexture>>

\* The texImage2D call of update(), or no call when reading `type` throws.
TexImage2D(t) ==
    LET this == textures[t]
        type == Texture2D_type(this)
    IN  IF type = Undefined THEN <<>>
        ELSE IF this.width # Undefined /\ this.height # Undefined
        THEN << Call("texImage2D",
                     <<TEXTURE_2D, this.lod, this.internalFormat, Get(this.width),
                       Get(this.height), 0, Texture2D_format(this), Get(type), t>>) >>
        ELSE << Call("texImage2D",
                     <<TEXTURE_2D, this.lod, this.internalFormat,
                       Texture2D_format(this), Get(type), t>>) >>

\* Mutant of Texture2DUpdate: the texture is bound before the unit is selected.
Texture2DUpdateBindFirst(t, textureUnit) ==
    /\ op' = TextureOp("update", t, textureUnit)
    /\ textureBinding' = BindTexture(textureBinding, activeTexture, TEXTURE_2D, t)
    /\ activeTexture' = ActiveTexture(activeTexture, TEXTURE0 + textureUnit)
    /\ calls' = << Call("bindTexture", <<TEXTURE_2D, t>>),
                   Call("activeTexture", <<TEXTURE0 + textureUnit>>) >> \o TexImage2D(t)
    /\ UNCHANGED textures

\* texture.update(textureUnit).
Texture2DUpdate(t, textureUnit) ==
    /\ op' = TextureOp("update", t, textureUnit)
    /\ activeTexture' = ActiveTexture(activeTexture, TEXTURE0 + textureUnit)
    /\ textureBinding' = BindTexture(textureBinding, activeTexture', TEXTURE_2D, t)
    /\ calls' = << Call("activeTexture", <<TEXTURE0 + textureUnit>>),
                   Call("bindTexture", <<TEXTURE_2D, t>>) >> \o TexImage2D(t)
    /\ UNCHANGED textures

\* texture.internalFormat = value.
Set_internalFormat(t, value) ==
    /\ textures' = [textures EXCEPT ![t].internalFormat = value]
    /\ op' = TextureOp("internalFormat", t, value)
    /\ calls' = <<>>
    /\ UNCHANGED <<activeTexture, textureBinding>>

\* texture.type = value.
Set_type(t, value) ==
    /\ textures' = [textures EXCEPT ![t].type = Some(value)]
    /\ op' = TextureOp("type", t, value)
    /\ calls' = <<>>
    /\ UNCHANGED <<activeTexture, textureBinding>>

\* texture.width = width; texture.height = height.
Set_size(t, width, height) ==
    /\ textures' = [textures EXCEPT ![t].width = Some(width), ![t].height = Some(height)]
    /\ op' = TextureOp("size", t, width)
    /\ calls' = <<>>
    /\ UNCHANGED <<activeTexture, textureBinding>>

\* new Texture2D(gl, pixels): lod 0, internal format RGBA, nothing else set.
NewTexture2D ==
    [lod |-> 0, internalFormat |-> RGBA, type |-> Undefined, format |-> Undefined,
     width |-> Undefined, height |-> Undefined]

InitTexture ==
    /\ textures = [t \in Textures |-> NewTexture2D]
    /\ activeTexture = 0
    /\ textureBinding = [unit \in TextureUnits |-> 0]

NextTexture ==
    /\ UNCHANGED <<attributeVars, contextVars, uniformVars, matrixVars, arrayVars, vaoVars, texParameterVars>>
    /\ pc.step = "idle"
    /\ \/ \E t \in Textures : TextureBind(t)
       \/ \E t \in Textures, textureUnit \in TextureUnits : Texture2DUpdate(t, textureUnit)
       \/ \E t \in Textures, value \in {RGBA, R16UI} : Set_internalFormat(t, value)
       \/ \E t \in Textures : Set_type(t, UNSIGNED_SHORT)
       \/ \E t \in Textures : Set_size(t, 4, 4)

\* `texture.type` read by the application; `arg` is what the getter returned
\* (Undefined: it threw).
Get_type(t) ==
    /\ op' = TextureOp("getType", t, Texture2D_type(textures[t]))
    /\ calls' = <<>>
    /\ UNCHANGED textureVars

\* Internal formats assigned before `type` is read: one of each default group
\* and one without a default.
TypeFormatInputs == {RGBA, SRGB8_ALPHA8, R32F, RGB10_A2, R16UI}

NextTextureType ==
    /\ UNCHANGED <<attributeVars, contextVars, uniformVars, matrixVars, arrayVars, vaoVars, texParameterVars>>
    /\ pc.step = "idle"
    /\ \/ \E t \in Textures, value \in TypeFormatInputs : Set_internalFormat(t, value)
       \/ \E t \in Textures, value \in {UNSIGNED_SHORT, FLOAT} : Set_type(t, value)
       \/ \E t \in Textures : Get_type(t)

\* ------------------------------------------------ Texture2D: parameters
\* The two textures whose accessors are interleaved.
TexturePair == {1, 2}

TexParameters == {TEXTURE_MAG_FILTER, TEXTURE_MIN_FILTER, TEXTURE_WRAP_S, TEXTURE_WRAP_T}

TextureFilters == {NEAREST, LINEAR}

TextureWrapFunctions == {REPEAT, CLAMP_TO_EDGE}

\* The parameters of a texture object the device has just created.
InitialTexParameters ==
    (TEXTURE_MAG_FILTER :> LINEAR) @@ (TEXTURE_MIN_FILTER :> NEAREST_MIPMAP_LINEAR)
    @@ (TEXTURE_WRAP_S :> REPEAT) @@ (TEXTURE_WRAP_T :> REPEAT)

\* gl.texParameteri(target, pname, value): acts on the texture bound to the
\* target on the active unit; with none bound it is an INVALID_OPERATION error.
TexParameteri(parameters, binding, active, target, pname, value) ==
    IF target = TEXTURE_2D /\ binding[active] # 0
    THEN [parameters EXCEPT ![binding[active]][pname] = value]
    ELSE parameters

\* gl.getTexParameter(target, pname): of the texture bound to the target on the
\* active unit; null (0 here) with none bound.
GetTexParameter(parameters, binding, active, target, pname) ==
    IF target = TEXTURE_2D /\ binding[active] # 0
    THEN parameters[binding[active]][pname]
    ELSE 0

\* Mutant of SetTexParameter: the texture is not bound first.
SetTexParameterUnbound(t, name, pname, value) ==
    /\ texParameter' = TexParameteri(texParameter, textureBinding, activeTexture,
                                     TEXTURE_2D, pname, value)
    /\ op' = TextureOp(name, t, value)
    /\ calls' = << Call("texParameteri", <<TEXTURE_2D, pname, value>>) >>
    /\ UNCHANGED textureVars

\* The body the four parameter setters share: this.bind(), then texParameteri.
SetTexParameter(t, name, pname, value) ==
    LET binding == BindTexture(textureBinding, activeTexture, TEXTURE_2D, t)
    IN  /\ textureBinding' = binding
        /\ texParameter' = TexParameteri(texParameter, binding, activeTexture,
                                         TEXTURE_2D, pname, value)
        /\ op' = TextureOp(name, t, value)
        /\ calls' = << Call("bindTexture", <<TEXTURE_2D, t>>),
                       Call("texParameteri", <<TEXTURE_2D, pname, value>>) >>
        /\ UNCHANGED <<textures, activeTexture>>

\* Mutant of ReadTexParameter: the texture is not bound first.
ReadTexParameterUnbound(t, name, pname) ==
    /\ op' = TextureOp(name, t, GetTexParameter(texParameter, textureBinding, activeTexture,
                                                TEXTURE_2D, pname))
    /\ calls' = << Call("getTexParameter", <<TEXTURE_2D, pname>>) >>
    /\ UNCHANGED <<textureVars, texParameter>>

\* The body the four parameter getters share: this.bind(), then
\* getTexParameter; `arg` is what the getter returned.
ReadTexParameter(t, name, pname) ==
    LET binding == BindTexture(textureBinding, activeTexture, TEXTURE_2D, t)
    IN  /\ textureBinding' = binding
        /\ op' = TextureOp(name, t, GetTexParameter(texParameter, binding, activeTexture,
                                                    TEXTURE_2D, pname))
        /\ calls' = << Call("bindTexture", <<TEXTURE_2D, t>>),
                       Call("getTexParameter", <<TEXTURE_2D, pname>>) >>
        /\ UNCHANGED <<textures, activeTexture, texParameter>>

Get_magFilter(t) == ReadTexParameter(t, "get magFilter", TEXTURE_MAG_FILTER)

Set_magFilter(t, value) == SetTexParameter(t, "set magFilter", TEXTURE_MAG_FILTER, value)

Get_minFilter(t) == ReadTexParameter(t, "get minFilter", TEXTURE_MIN_FILTER)

Set_minFilter(t, value) == SetTexParameter(t, "set minFilter", TEXTURE_MIN_FILTER, value)

Get_wrapSFunction(t) == ReadTexParameter(t, "get wrapSFunction", TEXTURE_WRAP_S)

Set_wrapSFunction(t, value) == SetTexParameter(t, "set wrapSFunction", TEXTURE_WRAP_S, value)

Get_wrapTFunction(t) == ReadTexParameter(t, "get wrapTFunction", TEXTURE_WRAP_T)

Set_wrapTFunction(t, value) == SetTexParameter(t, "set wrapTFunction", TEXTURE_WRAP_T, value)

\* gl.getParameter(ACTIVE_TEXTURE): the enum of the active unit.
GetParameterActiveTexture(active) == TEXTURE0 + active

\* get activeTextureUnit(): the value returned.
activeTextureUnit == GetParameterActiveTexture(activeTexture) - TEXTURE0

\* Mutant of Set_activeTextureUnit: the unit index is passed as it is.
Set_activeTextureUnitRaw(value) ==
    /\ activeTexture' = ActiveTexture(activeTexture, value)
    /\ calls' = << Call("activeTexture", <<value>>) >>
    /\ op' = CtxOp("activeTextureUnit", value, activeTextureUnit)
    /\ UNCHANGED <<textures, textureBinding, texParameter>>

\* context.activeTextureUnit = value
Set_activeTextureUnit(value) ==
    /\ activeTexture' = ActiveTexture(activeTexture, TEXTURE0 + value)
    /\ calls' = << Call("activeTexture", <<TEXTURE0 + value>>) >>
    /\ op' = CtxOp("activeTextureUnit", value, activeTextureUnit)
    /\ UNCHANGED <<textures, textureBinding, texParameter>>

\* context.activeTextureUnit read by the application.
Get_activeTextureUnit ==
    /\ calls' = << Call("getParameter", <<ACTIVE_TEXTURE>>) >>
    /\ op' = ReadOp("activeTextureUnit", activeTextureUnit)
    /\ UNCHANGED <<textureVars, texParameter>>

\* The unit indices assigned: the units of the device and the first index
\* past them.
UnitInputs == TextureUnits \cup {Cardinality(TextureUnits)}

InitTexParameter == texParameter = [t \in Textures |-> InitialTexParameters]

NextTexParameter ==
    /\ UNCHANGED <<attributeVars, contextVars, uniformVars, matrixVars, arrayVars, vaoVars>>
    /\ pc.step = "idle"
    /\ \/ \E t \in TexturePair : Get_magFilter(t)
       \/ \E t \in TexturePair, value \in TextureFilters : Set_magFilter(t, value)
       \/ \E t \in TexturePair : Get_minFilter(t)
       \/ \E t \in TexturePair, value \in TextureFilters : Set_minFilter(t, value)
       \/ \E t \in TexturePair : Get_wrapSFunction(t)
       \/ \E t \in TexturePair, value \in TextureWrapFunctions : Set_wrapSFunction(t, value)
       \/ \E t \in TexturePair : Get_wrapTFunction(t)
       \/ \E t \in TexturePair, value \in TextureWrapFunctions : Set_wrapTFunction(t, value)
       \/ \E value \in UnitInputs : Set_activeTextureUnit(value)
       \/ Get_activeTextureUnit

\* The device parameter behind each accessor.
AccessorParameter ==
    [magFilter |-> TEXTURE_MAG_FILTER, minFilter |-> TEXTURE_MIN_FILTER,
     wrapSFunction |-> TEXTURE_WRAP_S, wrapTFunction |-> TEXTURE_WRAP_T]

\* ------------------------------------------------------------ Texture: claims
\* C24: texture parameters are isolated per texture.  An assignment to
\* magFilter, minFilter, wrapSFunction or wrapTFunction of a texture changes
\* that parameter of that texture to the assigned value and no other parameter
\* of either texture; a read changes no parameter and returns the value that
\* parameter of that texture holds, hence the value last assigned to it; after
\* a read the texture is the one bound to the target.
C24_ParametersIsolated ==
    [][\A accessor \in DOMAIN AccessorParameter :
          LET pname == AccessorParameter[accessor]
          IN  /\ op'.name = "set " \o accessor =>
                    texParameter' = [texParameter EXCEPT ![op'.obj][pname] = op'.arg]
              /\ op'.name = "get " \o accessor =>
                    /\ op'.arg = texParameter[op'.obj][pname]
                    /\ texParameter' = texParameter
                    /\ textureBinding'[activeTexture'] = op'.obj]_vars

\* C24 witness: minFilter was read on one texture while the other texture was
\* bound and held a different minFilter; the read returned its own value.
C24_Witness ==
    /\ op.name = "get minFilter"
    /\ op.held # 0
    /\ op.held # op.obj
    /\ texParameter[op.held][TEXTURE_MIN_FILTER] # texParameter[op.obj][TEXTURE_MIN_FILTER]
    /\ op.arg = texParameter[op.obj][TEXTURE_MIN_FILTER]
    /\ op.arg \in TextureFilters

\* C25: assigning n to activeTextureUnit issues the one call
\* activeTexture(TEXTURE0 + n); for n a unit of the device, the property then
\* holds n, and a read that follows returns n.
C25_ActiveTextureUnitRoundTrip ==
    [][/\ op'.name = "activeTextureUnit" =>
            /\ calls' = << Call("activeTexture", <<TEXTURE0 + op'.arg>>) >>
            /\ op'.arg \in TextureUnits => activeTextureUnit' = op'.arg
       /\ (/\ op.name = "activeTextureUnit"
           /\ op.arg \in TextureUnits
           /\ op'.name = "get"
           /\ op'.held = "activeTextureUnit") => op'.arg = op.arg]_vars

\* C25 witness: a read of activeTextureUnit returned 1, the unit assigned
\* before it.
C25_Witness ==
    /\ op.name = "get"
    /\ op.held = "activeTextureUnit"
    /\ op.arg = Cardinality(TextureUnits) - 1
    /\ op.arg # 0

\* C26: assigning true to one of the ten enable* properties issues exactly one
\* gl.enable and assigning false exactly one gl.disable, for the property's own
\* capability; the ten capabilities are distinct, the assignment changes the
\* device state of that capability only, and a read of the property that
\* follows returns the assigned value.
C26_EnableProperties ==
    [][/\ Cardinality({EnableProperties[name].isEnabled : name \in DOMAIN EnableProperties})
             = Cardinality(DOMAIN EnableProperties)
       /\ op'.name \in DOMAIN EnableProperties =>
            LET cap == EnableProperties[op'.name].isEnabled
            IN  /\ calls' = << Call(IF op'.arg THEN "enable" ELSE "disable", <<cap>>) >>
                /\ caps' = [caps EXCEPT ![cap] = op'.arg]
                /\ param' = param
       /\ (/\ op.name \in DOMAIN EnableProperties
           /\ op'.name = "get"
           /\ op'.held = op.name) => op'.arg = op.arg]_vars

\* C26 witness: enableDither, on when the context is new, was read as false
\* after an assignment while the scissor test stayed enabled.
C26_Witness ==
    /\ op.name = "get"
    /\ op.held = "enableDither"
    /\ op.arg = FALSE
    /\ caps[SCISSOR_TEST]
    /\ ~caps[DITHER]

\* Each paired property: its own device slot and the property paired with it.
PairedSlots ==
    [polygonOffsetFactor |-> [slot |-> POLYGON_OFFSET_FACTOR, pair |-> "polygonOffsetUnits"],
     polygonOffsetUnits |-> [slot |-> POLYGON_OFFSET_UNITS, pair |-> "polygonOffsetFactor"],
     sampleCoverageValue |->
        [slot |-> SAMPLE_COVERAGE_VALUE, pair |-> "sampleCoverageInvert"],
     sampleCoverageInvert |->
        [slot |-> SAMPLE_COVERAGE_INVERT, pair |-> "sampleCoverageValue"],
     blendEquationRgb |-> [slot |-> BLEND_EQUATION_RGB, pair |-> "blendEquationAlpha"],
     blendEquationAlpha |-> [slot |-> BLEND_EQUATION_ALPHA, pair |-> "blendEquationRgb"]]

\* C27: for the pairs (polygonOffsetFactor, polygonOffsetUnits),
\* (sampleCoverageValue, sampleCoverageInvert) and (blendEquationRgb,
\* blendEquationAlpha), assigning one member sets its own slot and leaves the
\* other member's slot (and every other slot) as the device held it; after
\* both members were assigned, in either order, the device holds both assigned
\* values; assigning `blendEquation` sets both equations to the value.
C27_PairedSlots ==
    [][/\ op'.name \in DOMAIN PairedSlots =>
            param' = [param EXCEPT ![PairedSlots[op'.name].slot] = op'.arg]
       /\ (op.name \in DOMAIN PairedSlots /\ op'.name = PairedSlots[op.name].pair) =>
            /\ param'[PairedSlots[op.name].slot] = op.arg
            /\ param'[PairedSlots[op'.name].slot] = op'.arg
       /\ op'.name = "blendEquation" =>
            param' = [param EXCEPT ![BLEND_EQUATION_RGB] = op'.arg,
                                   ![BLEND_EQUATION_ALPHA] = op'.arg]]_vars

\* C27 witness: sampleCoverageInvert was assigned true directly after
\* sampleCoverageValue was assigned 0, and the device holds both.
C27_Witness ==
    /\ op.name = "sampleCoverageInvert"
    /\ op.arg = TRUE
    /\ calls = << Call("getParameter", <<SAMPLE_COVERAGE_VALUE>>),
                  Call("sampleCoverage", <<0, TRUE>>) >>
    /\ param[SAMPLE_COVERAGE_VALUE] = 0
    /\ param[SAMPLE_COVERAGE_INVERT] = TRUE

\* C23: Texture2D.type returns the assigned data type whenever one has been
\* set, whatever the internal format; otherwise UNSIGNED_BYTE for the 8-bit and
\* unsized formats, FLOAT for the floating-point formats,
\* UNSIGNED_INT_2_10_10_10_REV for RGB10_A2, and it throws for every other
\* internal format; every internal format with a default type is a case of the
\* `format` switch.
C23_TypeDefaults ==
    /\ (UnsignedByteFormats \cup FloatFormats \cup {RGB10_A2}) \subseteq FormatCases
    /\ op.name = "getType" =>
          LET this == textures[op.obj]
          IN  /\ this.type # Undefined => op.arg = this.type
              /\ this.type = Undefined =>
                    /\ this.internalFormat \in UnsignedByteFormats
                           => op.arg = Some(UNSIGNED_BYTE)
                    /\ this.internalFormat \in FloatFormats => op.arg = Some(FLOAT)
                    /\ this.internalFormat = RGB10_A2
                           => op.arg = Some(UNSIGNED_INT_2_10_10_10_REV)
                    /\ this.internalFormat \notin
                           (UnsignedByteFormats \cup FloatFormats \cup {RGB10_A2})
                           => op.arg = Undefined

\* C23 witness: `type` was read on a texture with no assigned type and an
\* internal format without a default, and the getter threw.
C23_Witness ==
    /\ op.name = "getType"
    /\ textures[op.obj].type = Undefined
    /\ textures[op.obj].internalFormat = R16UI
    /\ op.arg = Undefined

\* C16: every Texture2D.update(unit) call selects texture unit TEXTURE0 + unit,
\* then binds the texture to its target, then issues exactly one texImage2D
\* call, so at the upload this texture is the one bound to its target on the
\* active unit, whatever was bound or updated before.
C16_UpdateBindsThenUploads ==
    [][op'.name = "update" =>
        /\ Len(calls') = 3
        /\ calls'[1] = Call("activeTexture", <<TEXTURE0 + op'.arg>>)
        /\ calls'[2] = Call("bindTexture", <<TEXTURE_2D, op'.obj>>)
        /\ calls'[3].fn = "texImage2D"
        /\ activeTexture' = op'.arg
        /\ textureBinding'[activeTexture'] = op'.obj]_vars

\* C16 as amended: every Texture2D.update(unit) call selects texture unit
\* TEXTURE0 + unit, then binds the texture to its target, so this texture is
\* the one bound on the active unit; it then issues exactly one texImage2D
\* call, unless no data type is assigned and the internal format has no
\* default data type: then reading `type` throws and no texImage2D is issued.
C16_UpdateBindsThenUploadsUnlessTypeThrows ==
    [][op'.name = "update" =>
        LET this == textures[op'.obj]
            throws == /\ this.type = Undefined
                      /\ this.internalFormat \notin
                            UnsignedByteFormats \cup FloatFormats \cup {RGB10_A2}
        IN  /\ Len(calls') = IF throws THEN 2 ELSE 3
            /\ calls'[1] = Call("activeTexture", <<TEXTURE0 + op'.arg>>)
            /\ calls'[2] = Call("bindTexture", <<TEXTURE_2D, op'.obj>>)
            /\ ~throws => calls'[3].fn = "texImage2D"
            /\ activeTexture' = op'.arg
            /\ textureBinding'[activeTexture'] = op'.obj]_vars

\* C16 witness: the second texture was updated on unit 1 while the first
\* texture was bound on the unit active before; the upload went out with the
\* second texture bound on unit 1.
C16_Witness ==
    /\ op.name = "update"
    /\ op.obj = 2
    /\ op.arg = 1
    /\ op.held = 1
    /\ Len(calls) = 3
    /\ activeTexture = 1
    /\ textureBinding[1] = 2

\* C17: every Texture.bind() call issues exactly one bindTexture of this
\* texture's handle to its target, also when it is already the current
\* binding, and binding twice in a row leaves the device's bindings as
\* binding once does.
C17_BindAlwaysCallsDevice ==
    [][op'.name = "bind" =>
        /\ calls' = << Call("bindTexture", <<TEXTURE_2D, op'.obj>>) >>
        /\ textureBinding' = [textureBinding EXCEPT ![activeTexture] = op'.obj]
        /\ activeTexture' = activeTexture
        /\ (op.name = "bind" /\ op.obj = op'.obj) => textureBinding' = textureBinding]_vars

\* C17 witness: bind() ran on a texture that was already bound on the active
\* unit, and the bindTexture call went out all the same.
C17_Witness ==
    /\ op.name = "bind"
    /\ op.held = op.obj
    /\ calls = << Call("bindTexture", <<TEXTURE_2D, op.obj>>) >>
    /\ textureBinding[activeTexture] = op.obj

\* ------------------------------------------------------------------ Matrix2
\* A Matrix2 is an array of four numbers in column-major order; entry i of the
\* source is entry i + 1 of the tuple.  `h` is the heap of matrices: the static
\* functions write `out` one entry at a time and read `m` from the same heap,
\* so `m` and `out` may be the same object.
Matrices == 1..NumMatrices

\* The entries handed to the constructor.
EntryValues == {0, 1}

MatrixValues == {<<c1r1, c1r2, c2r1, c2r2>> : c1r1 \in EntryValues, c1r2 \in EntryValues,
                                              c2r1 \in EntryValues, c2r2 \in EntryValues}

Identity == <<1, 0, 0, 1>>

\* Matrix2.transposeFast(m, out)
transposeFast(h, m, out) ==
    LET h0 == [h EXCEPT ![out][1] = h[m][1]]
        h1 == [h0 EXCEPT ![out][2] = h0[m][3]]
        h2 == [h1 EXCEPT ![out][3] = h1[m][2]]
    IN  [h2 EXCEPT ![out][4] = h2[m][4]]

\* Matrix2.adjointFast(m, out)
adjointFast(h, m, out) ==
    LET h0 == [h EXCEPT ![out][1] = h[m][4]]
        h1 == [h0 EXCEPT ![out][2] = -h0[m][2]]
        h2 == [h1 EXCEPT ![out][3] = -h1[m][3]]
    IN  [h2 EXCEPT ![out][4] = h2[m][1]]

\* Matrix2.cofactorFast(m, out)
cofactorFast(h, m, out) ==
    LET h0 == [h EXCEPT ![out][1] = h[m][4]]
        h1 == [h0 EXCEPT ![out][2] = -h0[m][2]]
        h2 == [h1 EXCEPT ![out][3] = h1[m][3]]
    IN  [h2 EXCEPT ![out][4] = -h2[m][1]]

\* Matrix2.determinantFast(m)
determinantFast(h, m) == h[m][1] * h[m][4] - h[m][3] * h[m][2]

\* Matrix2.multiplyFast(a, b, out): all eight entries are read into locals
\* before the first write.
multiplyFast(h, a, b, out) ==
    LET a00 == h[a][1]
        a01 == h[a][2]
        a10 == h[a][3]
        a11 == h[a][4]
        b00 == h[b][1]
        b01 == h[b][2]
        b10 == h[b][3]
        b11 == h[b][4]
    IN  [h EXCEPT ![out] = <<a00 * b00 + a10 * b01, a01 * b00 + a11 * b01,
                             a00 * b10 + a10 * b11, a01 * b10 + a11 * b11>>]

\* An operation on matrix `m` writing matrix `out`; `arg` is what `m` held
\* before it.
MatrixOp(name, m, out) == [name |-> name, obj |-> m, arg |-> matrix[m], held |-> out]

\* new Matrix2(c1r1, c1r2, c2r1, c2r2), kept in variable m.
Matrix2(m, entries) ==
    /\ matrix' = [matrix EXCEPT ![m] = entries]
    /\ op' = [MatrixOp("Matrix2", m, m) EXCEPT !.arg = entries]
    /\ calls' = <<>>

\* Matrix2.transposeFast(m, out) called by the application.
TransposeFast(m, out) ==
    /\ matrix' = transposeFast(matrix, m, out)
    /\ op' = MatrixOp("transposeFast", m, out)
    /\ calls' = <<>>

\* m.transpose()
Transpose(this) ==
    /\ matrix' = transposeFast(matrix, this, this)
    /\ op' = MatrixOp("transpose", this, this)
    /\ calls' = <<>>

\* Matrix2.adjointFast(m, out) called by the application.
AdjointFast(m, out) ==
    /\ matrix' = adjointFast(matrix, m, out)
    /\ op' = MatrixOp("adjointFast", m, out)
    /\ calls' = <<>>

\* m.adjoint()
Adjoint(this) ==
    /\ matrix' = adjointFast(matrix, this, this)
    /\ op' = MatrixOp("adjoint", this, this)
    /\ calls' = <<>>

\* Matrix2.cofactorFast(m, out) called by the application.
CofactorFast(m, out) ==
    /\ matrix' = cofactorFast(matrix, m, out)
    /\ op' = MatrixOp("cofactorFast", m, out)
    /\ calls' = <<>>

\* new Matrix2(): the identity.
InitMatrix == matrix = [m \in Matrices |-> Identity]

NextMatrix ==
    /\ UNCHANGED <<attributeVars, contextVars, uniformVars, textureVars, arrayVars, vaoVars, texParameterVars>>
    /\ pc.step = "idle"
    /\ \/ \E m \in Matrices, entries \in MatrixValues : Matrix2(m, entries)
       \/ \E m \in Matrices, out \in Matrices : TransposeFast(m, out)
       \/ \E m \in Matrices : Transpose(m)
       \/ \E m \in Matrices, out \in Matrices : AdjointFast(m, out)
       \/ \E m \in Matrices : Adjoint(m)
       \/ \E m \in Matrices, out \in Matrices : CofactorFast(m, out)

\* ------------------------------------------------------- Matrix2: claims
\* What each static function stores in an output matrix distinct from its
\* argument, for an argument holding `value`.
TransposeOf(value) == transposeFast(<<value, Identity>>, 1, 2)[2]

AdjugateOf(value) == adjointFast(<<value, Identity>>, 1, 2)[2]

ProductOf(left, right) == multiplyFast(<<left, right, Identity>>, 1, 2, 3)[3]

DeterminantOf(value) == determinantFast(<<value>>, 1)

\* C19: m.transpose() leaves m equal to the transpose of its previous value:
\* entries 1 and 2 exchanged, entries 0 and 3 kept, which is what transposeFast
\* stores in a distinct output matrix; a second transpose() therefore restores
\* the matrix.
C19_TransposeInPlace ==
    [][op'.name = "transpose" =>
          /\ matrix'[op'.obj] = TransposeOf(matrix[op'.obj])
          /\ matrix'[op'.obj] =
                 <<matrix[op'.obj][1], matrix[op'.obj][3], matrix[op'.obj][2], matrix[op'.obj][4]>>
          /\ transposeFast(matrix', op'.obj, op'.obj)[op'.obj] = matrix[op'.obj]]_vars

\* C20: m.adjoint() leaves m equal to the adjugate of its previous value,
\* [m3, -m1, -m2, m0], which is what adjointFast stores in a distinct output
\* matrix; the previous m multiplied by the result is therefore determinant(m)
\* times the identity.
C20_AdjointInPlace ==
    [][op'.name = "adjoint" =>
          /\ matrix'[op'.obj] = AdjugateOf(matrix[op'.obj])
          /\ matrix'[op'.obj] =
                 <<matrix[op'.obj][4], -matrix[op'.obj][2], -matrix[op'.obj][3], matrix[op'.obj][1]>>
          /\ ProductOf(matrix[op'.obj], matrix'[op'.obj]) =
                 <<DeterminantOf(matrix[op'.obj]), 0, 0, DeterminantOf(matrix[op'.obj])>>]_vars

\* C21: cofactorFast(m, out) with `out` distinct from `m` stores the cofactor
\* matrix of m, [m3, -m2, -m1, m0], which is the transpose of what adjointFast
\* stores for m.
C21_CofactorFast ==
    [][(op'.name = "cofactorFast" /\ op'.held # op'.obj) =>
          /\ matrix'[op'.held] =
                 <<matrix[op'.obj][4], -matrix[op'.obj][3], -matrix[op'.obj][2], matrix[op'.obj][1]>>
          /\ matrix'[op'.held] = TransposeOf(AdjugateOf(matrix[op'.obj]))]_vars

\* ---------------------------------------------------------------------- VAO
\* Two VAOs, each made for its own program: VAO v belongs to program v, and
\* its private array #attributes is array v of `lists`.
VAOs == {1, 2}

\* The one array the application holds at a time: what `attributes` returned.
CopyArray == Cardinality(VAOs) + 1

\* The Attribute objects handed to a VAO: the length of their buffer's data
\* and their size (components per vertex).
VertexAttributes ==
    (1 :> [length |-> 6, size |-> 2]) @@ (2 :> [length |-> 6, size |-> 3])

\* The attribute arrays given to the constructor.
AttributeLists == {<<>>, <<1>>, <<2, 1>>}

\* The values assigned to indexData: nothing, an empty array, three indices.
IndexInputs == {Undefined, Some(<<>>), Some(<<0, 1, 257>>)}

\* new Uint8Array(value): every element modulo 2^8.
Uint8Array(value) == [i \in 1..Len(value) |-> value[i] % 256]

\* new Attribute(null, new Buffer(gl, new Uint8Array(value), ELEMENT_ARRAY_BUFFER),
\* 1, UNSIGNED_BYTE): the index attribute, with the default offset.
IndexAttribute(value) ==
    [data |-> Uint8Array(value), size |-> 1, type |-> UNSIGNED_BYTE, offset |-> 0]

\* An operation on VAO `v`; `held` tells whether it threw.
VAOOp(name, v, arg, threw) == [name |-> name, obj |-> v, arg |-> arg, held |-> threw]

\* program.use(): makes the program the active one.
ProgramUse(program) == << Call("useProgram", <<program>>) >>

\* attribute.use(program): the attribute's own set-up for the program, kept as
\* one opaque call.
AttributeUse(attribute, program) == Call("attribute.use", <<attribute, program>>)

\* this.bind(): gl.bindVertexArray(this.vao)
BindVertexArray(v) == << Call("bindVertexArray", <<v>>) >>

\* The calls of addAttribute(attribute) for each attribute of a sequence:
\* this.bind(), then attribute.use(this.program).
AddCalls(v, attributes) ==
    [i \in 1..(2 * Len(attributes)) |->
        IF i % 2 = 1 THEN Call("bindVertexArray", <<v>>)
        ELSE AttributeUse(attributes[i \div 2], vaos[v].program)]

\* set indexData(value): this.bind(), then the index attribute for a truthy
\* value (an array, empty or not) and null otherwise.
IndexData(value) == IF value = Undefined THEN Undefined ELSE Some(IndexAttribute(Get(value)))

\* new VAO(program, attributes, indexData), kept in variable v.
NewVAO(v, attributes, indexData) ==
    /\ vaos' = [vaos EXCEPT ![v].indices = IndexData(indexData)]
    /\ lists' = [lists EXCEPT ![v] = attributes]
    /\ vertexArrayBinding' = v
    /\ calls' = << Call("createVertexArray", <<>>) >> \o AddCalls(v, attributes)
                 \o BindVertexArray(v)
    /\ op' = VAOOp("VAO", v, attributes, FALSE)
    /\ UNCHANGED <<returned, currentProgram>>

\* vao.addAttribute(attribute)
AddAttribute(v, attribute) ==
    /\ Len(lists[v]) < MaxAttributeList
    /\ lists' = [lists EXCEPT ![v] = Append(@, attribute)]
    /\ vertexArrayBinding' = v
    /\ calls' = AddCalls(v, <<attribute>>)
    /\ op' = VAOOp("addAttribute", v, attribute, FALSE)
    /\ UNCHANGED <<vaos, returned, currentProgram>>

\* Mutant of Get_attributes: the getter hands out the private array itself.
Get_attributesAlias(v) ==
    /\ returned' = v
    /\ calls' = <<>>
    /\ op' = VAOOp("attributes", v, lists[v], FALSE)
    /\ UNCHANGED <<vaos, lists, vertexArrayBinding, currentProgram>>

\* vao.attributes read by the application: [...this.#attributes], a new array.
Get_attributes(v) ==
    /\ lists' = [lists EXCEPT ![CopyArray] = lists[v]]
    /\ returned' = CopyArray
    /\ calls' = <<>>
    /\ op' = VAOOp("attributes", v, lists[v], FALSE)
    /\ UNCHANGED <<vaos, vertexArrayBinding, currentProgram>>

\* The application changes the array it got from `attributes`: push(attribute).
PushReturned(attribute) ==
    /\ returned # 0
    /\ Len(lists[returned]) <= MaxAttributeList
    /\ lists' = [lists EXCEPT ![returned] = Append(@, attribute)]
    /\ calls' = <<>>
    /\ op' = VAOOp("push", 0, attribute, FALSE)
    /\ UNCHANGED <<vaos, returned, vertexArrayBinding, currentProgram>>

\* The application empties the array it got from `attributes`: length = 0.
ClearReturned ==
    /\ returned # 0
    /\ lists' = [lists EXCEPT ![returned] = <<>>]
    /\ calls' = <<>>
    /\ op' = VAOOp("clear", 0, 0, FALSE)
    /\ UNCHANGED <<vaos, returned, vertexArrayBinding, currentProgram>>

\* vao.indexData = value
Set_indexData(v, value) ==
    /\ vaos' = [vaos EXCEPT ![v].indices = IndexData(value)]
    /\ vertexArrayBinding' = v
    /\ calls' = BindVertexArray(v)
    /\ op' = VAOOp("indexData", v, value, FALSE)
    /\ UNCHANGED <<lists, returned, currentProgram>>

\* The draw call of draw(mode, offset), or no call when evaluating its
\* arguments throws: with no index attribute the vertex count is read from
\* this.attributes?.[0].buffer, and [0] of an empty array is undefined.
DrawCall(v, mode, offset) ==
    IF vaos[v].indices # Undefined
    THEN << Call("drawElements",
                 <<mode, Len(Get(vaos[v].indices).data), Get(vaos[v].indices).type,
                   Get(vaos[v].indices).offset>>) >>
    ELSE IF lists[v] = <<>> THEN <<>>
    ELSE << Call("drawArrays",
                 <<mode, offset,
                   VertexAttributes[lists[v][1]].length \div VertexAttributes[lists[v][1]].size>>) >>

\* vao.draw(mode = TRIANGLES, offset = 0): this.program.use(), this.bind(),
\* then the draw call.
Draw(v, mode, offset) ==
    LET m == IF mode = Undefined THEN TRIANGLES ELSE Get(mode)
        o == IF offset = Undefined THEN 0 ELSE Get(offset)
    IN  /\ currentProgram' = vaos[v].program
        /\ vertexArrayBinding' = v
        /\ calls' = ProgramUse(vaos[v].program) \o BindVertexArray(v)
                     \o DrawCall(v, m, o)
        /\ op' = VAOOp("draw", v, <<m, o>>, DrawCall(v, m, o) = <<>>)
        /\ UNCHANGED <<vaos, lists, returned>>

\* Both VAOs made by new VAO(program, [], undefined).
InitVAO ==
    /\ vaos = [v \in VAOs |-> [program |-> v, indices |-> Undefined]]
    /\ lists = [i \in VAOs \cup {CopyArray} |-> <<>>]
    /\ returned = 0
    /\ vertexArrayBinding = 0
    /\ currentProgram = 0

NextVAO ==
    /\ UNCHANGED <<attributeVars, contextVars, uniformVars, textureVars, matrixVars, arrayVars,
                   texParameterVars>>
    /\ pc.step = "idle"
    /\ \/ \E v \in VAOs, attributes \in AttributeLists, indexData \in IndexInputs :
            NewVAO(v, attributes, indexData)
       \/ \E v \in VAOs, attribute \in DOMAIN VertexAttributes : AddAttribute(v, attribute)
       \/ \E v \in VAOs, value \in IndexInputs : Set_indexData(v, value)
       \/ \E v \in VAOs, mode \in {Undefined, Some(LINES)}, offset \in {Undefined, Some(3)} :
            Draw(v, mode, offset)

NextVAOAttributes ==
    /\ UNCHANGED <<attributeVars, contextVars, uniformVars, textureVars, matrixVars, arrayVars,
                   texParameterVars>>
    /\ pc.step = "idle"
    /\ \/ \E v \in VAOs, attribute \in DOMAIN VertexAttributes : AddAttribute(v, attribute)
       \/ \E v \in VAOs : Get_attributes(v)
       \/ \E attribute \in DOMAIN VertexAttributes : PushReturned(attribute)
       \/ ClearReturned

\* ------------------------------------------------------------- VAO: claims
\* C28: every draw() performs program.use(), then bindVertexArray of this VAO,
\* then exactly one draw call: drawElements (count the number of index values,
\* type and offset of the index attribute) if index data is set, otherwise
\* drawArrays with the given offset; assigning a falsy indexData clears the
\* index attribute.
C28_DrawSequence ==
    [][/\ op'.name = "draw" =>
            /\ Len(calls') = 3
            /\ calls'[1] = Call("useProgram", <<vaos[op'.obj].program>>)
            /\ calls'[2] = Call("bindVertexArray", <<op'.obj>>)
            /\ IF vaos[op'.obj].indices # Undefined
               THEN calls'[3] =
                        Call("drawElements",
                             <<op'.arg[1], Len(Get(vaos[op'.obj].indices).data),
                               Get(vaos[op'.obj].indices).type,
                               Get(vaos[op'.obj].indices).offset>>)
               ELSE /\ calls'[3].fn = "drawArrays"
                    /\ calls'[3].args[1] = op'.arg[1]
                    /\ calls'[3].args[2] = op'.arg[2]
       /\ (op'.name = "indexData" /\ op'.arg = Undefined) =>
            vaos'[op'.obj].indices = Undefined]_vars

\* C29: draw() on a VAO with no index data and an empty attribute list
\* completes and issues drawArrays with a vertex count of 0; with at least one
\* attribute the count is the first attribute's data length divided by its
\* size.
C29_DrawArraysCount ==
    [][(op'.name = "draw" /\ vaos[op'.obj].indices = Undefined) =>
            /\ ~op'.held
            /\ calls'[Len(calls')] =
                   Call("drawArrays",
                        <<op'.arg[1], op'.arg[2],
                          IF lists[op'.obj] = <<>> THEN 0
                          ELSE VertexAttributes[lists[op'.obj][1]].length
                                   \div VertexAttributes[lists[op'.obj][1]].size>>)]_vars

\* C30: `attributes` returns a copy: it holds the VAO's attributes in order,
\* and changing the returned array changes no VAO's own list; addAttribute
\* binds the VAO, applies the attribute to the VAO's program and then appends
\* it, so the list holds the added attributes in insertion order.
C30_AttributesCopy ==
    [][/\ op'.name = "addAttribute" =>
            /\ calls' = << Call("bindVertexArray", <<op'.obj>>),
                           Call("attribute.use", <<op'.arg, vaos[op'.obj].program>>) >>
            /\ lists'[op'.obj] = Append(lists[op'.obj], op'.arg)
            /\ \A v \in VAOs \ {op'.obj} : lists'[v] = lists[v]
       /\ op'.name = "attributes" =>
            /\ op'.arg = lists[op'.obj]
            /\ lists'[returned'] = lists[op'.obj]
            /\ \A v \in VAOs : lists'[v] = lists[v]
       /\ op'.name \in {"push", "clear"} =>
            /\ lists'[returned] # lists[returned] \/ lists[returned] = <<>>
            /\ \A v \in VAOs : lists'[v] = lists[v]]_vars

\* C30 witness: attributes 2 and 1 were added to a VAO in that order, the
\* application read `attributes` and pushed onto the array it got; the VAO's
\* list is as it was.
C30_Witness ==
    /\ op.name = "push"
    /\ returned # 0
    /\ lists[returned] = <<2, 1, 2>>
    /\ \E v \in VAOs : lists[v] = <<2, 1>>

\* ------------------------------------------------ getDataTypeForTypedArray
TypedArrays == 1..NumArrays

\* The array constructors the overloads of getDataTypeForTypedArray declare.
ArrayKinds ==
    {"Int8Array", "Uint8Array", "Uint8ClampedArray", "Int16Array", "Uint16Array",
     "Int32Array", "Uint32Array", "Float32Array"}

\* The `half` argument: omitted, true or false.
HalfInputs == {Undefined, Some(TRUE), Some(FALSE)}

\* `array instanceof ctor`
InstanceOf(array, ctor) == array = ctor

\* Mutant of getDataTypeForTypedArray: `half` is tested before the array kind.
getDataTypeForTypedArrayHalfFirst(array, half) ==
    IF half = Some(TRUE) THEN HALF_FLOAT
    ELSE IF InstanceOf(array, "Int8Array") THEN BYTE
    ELSE IF InstanceOf(array, "Float32Array") THEN FLOAT
    ELSE UNSIGNED_BYTE

\* getDataTypeForTypedArray(array, half = false)
getDataTypeForTypedArray(array, half) ==
    LET isHalf == IF half = Undefined THEN FALSE ELSE Get(half)
    IN  IF InstanceOf(array, "Int8Array") THEN BYTE
        ELSE IF InstanceOf(array, "Uint8Array") \/ InstanceOf(array, "Uint8ClampedArray")
             THEN UNSIGNED_BYTE
        ELSE IF InstanceOf(array, "Int16Array") THEN SHORT
        ELSE IF InstanceOf(array, "Uint16Array") THEN UNSIGNED_SHORT
        ELSE IF InstanceOf(array, "Int32Array") THEN INT
        ELSE IF InstanceOf(array, "Uint32Array") THEN UNSIGNED_INT
        ELSE IF isHalf THEN HALF_FLOAT
        ELSE FLOAT

\* new Int8Array(..), new Float32Array(..), ..: the application makes an array.
NewTypedArray(i, kind) ==
    /\ arrays' = [arrays EXCEPT ![i] = kind]
    /\ op' = Op("TypedArray", i, kind)
    /\ calls' = <<>>

\* getDataTypeForTypedArray(array) / getDataTypeForTypedArray(array, half);
\* `held` is what it returned.
GetDataTypeForTypedArray(i, half) ==
    /\ op' = [name |-> "getDataTypeForTypedArray", obj |-> i, arg |-> half,
              held |-> getDataTypeForTypedArray(arrays[i], half)]
    /\ calls' = <<>>
    /\ UNCHANGED arrays

InitArray == arrays = [i \in TypedArrays |-> "Uint8Array"]

NextArray ==
    /\ UNCHANGED <<attributeVars, contextVars, uniformVars, textureVars, matrixVars, vaoVars, texParameterVars>>
    /\ pc.step = "idle"
    /\ \/ \E i \in TypedArrays, kind \in ArrayKinds : NewTypedArray(i, kind)
       \/ \E i \in TypedArrays, half \in HalfInputs : GetDataTypeForTypedArray(i, half)

\* The data type the claim names for each array kind and `half`.
DataTypeTable(kind, isHalf) ==
    CASE kind = "Int8Array" -> BYTE
      [] kind \in {"Uint8Array", "Uint8ClampedArray"} -> UNSIGNED_BYTE
      [] kind = "Int16Array" -> SHORT
      [] kind = "Uint16Array" -> UNSIGNED_SHORT
      [] kind = "Int32Array" -> INT
      [] kind = "Uint32Array" -> UNSIGNED_INT
      [] kind = "Float32Array" -> IF isHalf THEN HALF_FLOAT ELSE FLOAT

\* C22: getDataTypeForTypedArray returns BYTE for Int8Array, UNSIGNED_BYTE for
\* Uint8Array and Uint8ClampedArray, SHORT for Int16Array, UNSIGNED_SHORT for
\* Uint16Array, INT for Int32Array, UNSIGNED_INT for Uint32Array, and for
\* Float32Array HALF_FLOAT when `half` is true and FLOAT when it is false or
\* omitted; a floating-point type is returned only for Float32Array, and for
\* every other kind the result is the same whatever `half` is.
C22_DataTypeForTypedArray ==
    op.name = "getDataTypeForTypedArray" =>
        /\ op.held = DataTypeTable(arrays[op.obj], op.arg = Some(TRUE))
        /\ (op.held \in {FLOAT, HALF_FLOAT}) <=> (arrays[op.obj] = "Float32Array")
        /\ arrays[op.obj] # "Float32Array" =>
               \A half \in HalfInputs :
                   getDataTypeForTypedArray(arrays[op.obj], half) = op.held

\* C22 witness: a Float32Array was passed with `half` true and HALF_FLOAT came
\* back.
C22_Witness ==
    /\ op.name = "getDataTypeForTypedArray"
    /\ arrays[op.obj] = "Float32Array"
    /\ op.arg = Some(TRUE)
    /\ op.held = HALF_FLOAT

\* ----------------------------------------------- stencil function: claims
\* C5: after `stencilRefFront = r` and `stencilMaskFront = m` (the claim's
\* r = 5, m = 0xFF), `stencilFuncFront = f` issues the one device call
\* stencilFuncSeparate(FRONT, f, r, m).
C5_StencilFuncFrontCall ==
    [][(/\ op'.name = "stencilFuncFront"
        /\ assigned.refFront # Undefined
        /\ assigned.maskFront # Undefined) =>
            WriteCalls' = << Call("stencilFuncSeparate",
                                  <<FRONT, op'.arg, Get(assigned.refFront),
                                    Get(assigned.maskFront)>>) >>]_vars

\* C5 witness: stencilFuncFront = NEVER was assigned after stencilRefFront = 5
\* and stencilMaskFront = 0xFF, and the call carried (FRONT, NEVER, 5, 0xFF).
C5_Witness ==
    /\ op.name = "stencilFuncFront"
    /\ assigned.refFront = Some(5)
    /\ assigned.maskFront = Some(255)
    /\ WriteCalls = << Call("stencilFuncSeparate", <<FRONT, NEVER, 5, 255>>) >>

\* The device slot each per-face stencil-function property stands for.
StencilFuncSlot ==
    [name \in {"stencilFuncFront", "stencilRefFront", "stencilValueMaskFront",
               "stencilFuncBack", "stencilRefBack", "stencilValueMaskBack"} |->
        CASE name = "stencilFuncFront" -> STENCIL_FUNC
          [] name = "stencilRefFront" -> STENCIL_REF
          [] name = "stencilValueMaskFront" -> STENCIL_VALUE_MASK
          [] name = "stencilFuncBack" -> STENCIL_BACK_FUNC
          [] name = "stencilRefBack" -> STENCIL_BACK_REF
          [] name = "stencilValueMaskBack" -> STENCIL_BACK_VALUE_MASK]

StencilFuncParameters ==
    {STENCIL_FUNC, STENCIL_REF, STENCIL_VALUE_MASK,
     STENCIL_BACK_FUNC, STENCIL_BACK_REF, STENCIL_BACK_VALUE_MASK}

\* C6: assigning one of the six per-face stencil-function properties sets its
\* own slot and leaves the other five function/reference/comparison-mask slots
\* as they were, whatever the device state before.
C6_StencilFuncPropertiesIndependent ==
    [][op'.name \in DOMAIN StencilFuncSlot =>
        \A n \in StencilFuncParameters :
            param'[n] = IF n = StencilFuncSlot[op'.name] THEN op'.arg ELSE param[n]]_vars

\* --------------------------------------------------- both-face setters: claims
\* The device slots each both-face composite setter stands for.
BothFaceSlots ==
    [name \in {"stencilFunc", "stencilRef", "stencilValueMask",
               "stencilFail", "stencilZFail", "stencilZPass"} |->
        CASE name = "stencilFunc" -> {STENCIL_FUNC, STENCIL_BACK_FUNC}
          [] name = "stencilRef" -> {STENCIL_REF, STENCIL_BACK_REF}
          [] name = "stencilValueMask" -> {STENCIL_VALUE_MASK, STENCIL_BACK_VALUE_MASK}
          [] name = "stencilFail" -> {STENCIL_FAIL, STENCIL_BACK_FAIL}
          [] name = "stencilZFail" ->
                {STENCIL_PASS_DEPTH_FAIL, STENCIL_BACK_PASS_DEPTH_FAIL}
          [] name = "stencilZPass" ->
                {STENCIL_PASS_DEPTH_PASS, STENCIL_BACK_PASS_DEPTH_PASS}]

StencilOpParameters ==
    {STENCIL_FAIL, STENCIL_PASS_DEPTH_FAIL, STENCIL_PASS_DEPTH_PASS,
     STENCIL_BACK_FAIL, STENCIL_BACK_PASS_DEPTH_FAIL, STENCIL_BACK_PASS_DEPTH_PASS}

\* C7: assigning a both-face composite setter (stencilFunc, stencilRef,
\* stencilValueMask, stencilFail, stencilZFail, stencilZPass) writes the new
\* value for its field on both faces and leaves the sibling fields of the
\* same family reading what they read before the assignment.
C7_BothFaceSettersPreserveSiblings ==
    [][op'.name \in DOMAIN BothFaceSlots =>
        \A n \in StencilFuncParameters \cup StencilOpParameters :
            param'[n] = IF n \in BothFaceSlots[op'.name] THEN op'.arg ELSE param[n]]_vars

\* ------------------------------------------------------ blend function: claims
\* The device slots each blend-function property sets to the assigned value.
BlendSlots ==
    [name \in {"blendFuncSrcRgb", "blendFuncDstRgb", "blendFuncSrcAlpha",
               "blendFuncDstAlpha", "blendFuncSrc", "blendFuncDst"} |->
        CASE name = "blendFuncSrcRgb" -> {BLEND_SRC_RGB}
          [] name = "blendFuncDstRgb" -> {BLEND_DST_RGB}
          [] name = "blendFuncSrcAlpha" -> {BLEND_SRC_ALPHA}
          [] name = "blendFuncDstAlpha" -> {BLEND_DST_ALPHA}
          [] name = "blendFuncSrc" -> {BLEND_SRC_RGB, BLEND_SRC_ALPHA}
          [] name = "blendFuncDst" -> {BLEND_DST_RGB, BLEND_DST_ALPHA}]

BlendParameters == {BLEND_SRC_RGB, BLEND_DST_RGB, BLEND_SRC_ALPHA, BLEND_DST_ALPHA}

\* C8: assigning one of blendFuncSrcRgb, blendFuncDstRgb, blendFuncSrcAlpha,
\* blendFuncDstAlpha changes only that blend-function slot; assigning
\* blendFuncSrc sets both source slots and leaves both destination slots
\* unchanged; assigning blendFuncDst sets both destination slots and leaves
\* both source slots unchanged.
C8_BlendFuncSettersPreserveSiblings ==
    [][op'.name \in DOMAIN BlendSlots =>
        \A n \in BlendParameters :
            param'[n] = IF n \in BlendSlots[op'.name] THEN op'.arg ELSE param[n]]_vars

\* C8 witness: blendFuncSrc was assigned while the two destination slots held
\* different values; both source slots hold the value, the destinations differ
\* still.
C8_Witness ==
    /\ op.name = "blendFuncSrc"
    /\ op.arg = SRC_ALPHA
    /\ param[BLEND_SRC_RGB] = SRC_ALPHA
    /\ param[BLEND_SRC_ALPHA] = SRC_ALPHA
    /\ param[BLEND_DST_RGB] = ONE_MINUS_SRC_ALPHA
    /\ param[BLEND_DST_ALPHA] = ZERO

\* --------------------------------------------------- stencil operation: claims
\* The face and device slot each per-face stencil-operation property stands for.
StencilOpSlot ==
    [name \in {"stencilFailFront", "stencilZFailFront", "stencilZPassFront",
               "stencilFailBack", "stencilZFailBack", "stencilZPassBack"} |->
        CASE name = "stencilFailFront" -> <<FRONT, STENCIL_FAIL>>
          [] name = "stencilZFailFront" -> <<FRONT, STENCIL_PASS_DEPTH_FAIL>>
          [] name = "stencilZPassFront" -> <<FRONT, STENCIL_PASS_DEPTH_PASS>>
          [] name = "stencilFailBack" -> <<BACK, STENCIL_BACK_FAIL>>
          [] name = "stencilZFailBack" -> <<BACK, STENCIL_BACK_PASS_DEPTH_FAIL>>
          [] name = "stencilZPassBack" -> <<BACK, STENCIL_BACK_PASS_DEPTH_PASS>>]

\* The three action slots of a face, in the order stencilOpSeparate takes them.
FaceOpParameters(face) ==
    IF face = FRONT
    THEN <<STENCIL_FAIL, STENCIL_PASS_DEPTH_FAIL, STENCIL_PASS_DEPTH_PASS>>
    ELSE <<STENCIL_BACK_FAIL, STENCIL_BACK_PASS_DEPTH_FAIL, STENCIL_BACK_PASS_DEPTH_PASS>>

\* C9: assigning one of the six per-face stencil-operation properties issues
\* one stencilOpSeparate call for that face, carrying the new value and the
\* device's values (before the assignment) of the other two actions of that
\* face, and leaves the three actions of the other face unchanged.
C9_StencilOpSeparateCall ==
    [][op'.name \in DOMAIN StencilOpSlot =>
        LET face == StencilOpSlot[op'.name][1]
            own == StencilOpSlot[op'.name][2]
            slots == FaceOpParameters(face)
            others == FaceOpParameters(IF face = FRONT THEN BACK ELSE FRONT)
            Arg(i) == IF slots[i] = own THEN op'.arg ELSE param[slots[i]]
        IN  /\ WriteCalls' = << Call("stencilOpSeparate",
                                     <<face, Arg(1), Arg(2), Arg(3)>>) >>
            /\ \A i \in 1..3 : param'[others[i]] = param[others[i]]]_vars

\* C9 witness: stencilZFailFront was assigned while the front and back fail
\* actions differed; the call carried the front face's fail and pass actions.
C9_Witness ==
    /\ op.name = "stencilZFailFront"
    /\ param[STENCIL_BACK_FAIL] = ZERO
    /\ param[STENCIL_BACK_PASS_DEPTH_PASS] = KEEP
    /\ WriteCalls = << Call("stencilOpSeparate", <<FRONT, REPLACE, ZERO, REPLACE>>) >>

\* ------------------------------------------------------- simple slots: claims
StateProperties == {"depthFunc", "cullFace", "viewport", "enableBlend"}

DeviceHolds(name) ==
    CASE name = "depthFunc" -> param[DEPTH_FUNC]
      [] name = "cullFace" -> param[CULL_FACE_MODE]
      [] name = "viewport" -> param[VIEWPORT]
      [] name = "enableBlend" -> caps[BLEND]

\* C11: after any sequence of assignments through the RenderingContext,
\* reading a state property returns the value the device holds for its slot
\* (and changes nothing); reading a simple slot directly after assigning it v
\* returns v.
C11_ReadReturnsDeviceValue ==
    [][op'.name = "get" =>
        /\ op'.arg = DeviceHolds(op'.held)
        /\ param' = param /\ caps' = caps
        /\ (op.name = op'.held) => (op'.arg = op.arg)]_vars

\* C11 witness: depthFunc was read after an assignment changed it from the
\* value of a new context, and the read returned the assigned value.
C11_Witness ==
    /\ op.name = "get"
    /\ op.held = "depthFunc"
    /\ readCount["depthFunc"] = 1
    /\ op.arg = GREATER
    /\ param[DEPTH_FUNC] = GREATER

\* The device query behind each simple state property.
SlotQuery(name) ==
    CASE name = "depthFunc" -> Call("getParameter", <<DEPTH_FUNC>>)
      [] name = "cullFace" -> Call("getParameter", <<CULL_FACE_MODE>>)
      [] name = "viewport" -> Call("getParameter", <<VIEWPORT>>)
      [] name = "enableBlend" -> Call("isEnabled", <<BLEND>>)

InitContext ==
    /\ param = InitialParameters
    /\ caps = InitialCapabilities
    /\ assigned = [refFront |-> Undefined, maskFront |-> Undefined]
    /\ readCount = [name \in StateProperties |-> 0]

Init ==
    /\ InitAttribute
    /\ InitContext
    /\ InitUniform
    /\ InitTexture
    /\ InitTexParameter
    /\ InitMatrix
    /\ InitArray
    /\ InitVAO
    /\ op = Op("new", 0, 0)
    /\ calls = <<>>

SpecAttribute == Init /\ [][NextAttribute]_vars

\* A RenderingContext on a freshly created context: no array is enabled yet.
InitFresh == Init /\ \A l \in Locations : ~vertexAttribArray[l]

SpecStencilFunc == InitFresh /\ [][NextStencilFunc]_vars

SpecStencilOp == InitFresh /\ [][NextStencilOp]_vars

SpecStencilBothFaces == InitFresh /\ [][NextStencilBothFaces]_vars

SpecBlend == InitFresh /\ [][NextBlend]_vars

SpecState == InitFresh /\ [][NextState]_vars

SpecEnable == InitFresh /\ [][NextEnable]_vars

SpecPaired == InitFresh /\ [][NextPaired]_vars

SpecUniform == InitFresh /\ [][NextUniform]_vars

SpecTexture == InitFresh /\ [][NextTexture]_vars

SpecTextureType == InitFresh /\ [][NextTextureType]_vars

SpecTexParameter == InitFresh /\ [][NextTexParameter]_vars

SpecMatrix == InitFresh /\ [][NextMatrix]_vars

SpecArray == InitFresh /\ [][NextArray]_vars

SpecVAO == InitFresh /\ [][NextVAO]_vars

SpecVAOAttributes == InitFresh /\ [][NextVAOAttributes]_vars

Next ==
    \/ NextAttribute
    \/ NextStencilFunc
    \/ NextStencilOp
    \/ NextStencilBothFaces
    \/ NextBlend
    \/ NextState
    \/ NextEnable
    \/ NextPaired
    \/ NextUniform
    \/ NextTexture
    \/ NextTextureType
    \/ NextTexParameter
    \/ NextMatrix
    \/ NextArray
    \/ NextVAO
    \/ NextVAOAttributes

Spec == Init /\ [][Next]_vars

====
